---- MODULE Spec2Model ----
(***************************************************************************)
(* State-machine model of the CyberProfile ERC-721 contract                *)
(* (src/ARTIFACT_CyberProfile.sol).                                        *)
(*                                                                         *)
(* Every external function of the contract is a pure operator over a       *)
(* storage record `s`: it returns [err, s], where err is "" for a call     *)
(* that returns normally and the revert string otherwise, and s is the     *)
(* storage after the call (the storage before the call when it reverts,    *)
(* as the EVM rolls a reverted call back).  One action per external        *)
(* function applies the operator to the current storage as one             *)
(* transaction and records the call and its outcome in `last`.             *)
(*                                                                         *)
(* tokenURI strings are not modelled: no require reads them; batchMint     *)
(* only reads the length of the tokenURIs array.                           *)
(***************************************************************************)
EXTENDS Integers, Sequences, FiniteSets, Bags, TLC

\* ----------------------------------------------------------------- bounds
MaxFid == 2          \* FIDs are 0..MaxFid
MaxTokens == 2       \* a transaction is explored while _tokenIdCounter <= MaxTokens

Fids == 0..MaxFid

\* ------------------------------------------------------------- addresses
ZeroAddress == "0x0"
Deployer == "deployer"          \* msg.sender of the constructor: Ownable's first owner
TreasuryAddr == "treasury"      \* an externally owned account
OracleAddr == "oracle"          \* an externally owned account
User == "user1"                 \* an externally owned account
NonReceiver == "nonReceiver"    \* a contract with neither onERC721Received nor a payable receive/fallback
This == "this"                  \* address(this)
\* A contract whose onERC721Received calls mint(user1, uri, CallbackFid) on this
\* contract with CallbackValue wei, ignores a revert of that call and returns the
\* ERC721Receiver selector.
Reenterer == "reenterer"
Reenterers == {Reenterer}
CallbackFid == 0
CallbackValue == 2

Addresses == {ZeroAddress, Deployer, TreasuryAddr, OracleAddr, User, NonReceiver, This}
                 \cup Reenterers

\* ---------------------------------------------------------- revert strings
OK == ""
ErrReentrant == "ReentrancyGuard: reentrant call"
ErrPaused == "Pausable: paused"
ErrNotPaused == "Pausable: not paused"
ErrNotOwner == "Ownable: caller is not the owner"
ErrZeroRecipient == "Cannot mint to zero address"
ErrAlreadyMinted == "FID has already minted"
ErrBatchAlreadyMinted == "FID already minted"
ErrFidRange == "FID not in eligible range"
ErrMaxSupply == "Max supply reached"
ErrPayment == "Insufficient payment"
ErrTreasuryTransfer == "Transfer to treasury failed"
ErrArrayLengths == "Array lengths must match"
ErrInvalidTreasury == "Invalid treasury address"
ErrPriceOrder == "Pro price must be <= base price"
ErrMaxSupplyZero == "Max supply must be > 0"
ErrMaxSupplyBelow == "Cannot set max supply below current supply"
ErrInvalidRange == "Invalid FID range"
ErrNotAuthorized == "Not authorized"
ErrMintToZero == "ERC721: mint to the zero address"
ErrTokenExists == "ERC721: token already minted"
ErrNonReceiver == "ERC721: transfer to non ERC721Receiver implementer"
ErrInvalidOracle == "Invalid oracle address"
ErrInvalidRoyaltyReceiver == "Invalid royalty receiver"
ErrRoyaltyTooHigh == "Royalty too high (max 10%)"
ErrNewOwnerZero == "Ownable: new owner is the zero address"
ErrNoBalance == "No balance to withdraw"
ErrWithdrawalFailed == "Withdrawal failed"
ErrFidNotMinted == "FID has not minted"
ErrTokenMissing == "Token does not exist"

\* ------------------------------------------------------- royalty constants
DefaultRoyaltyBasisPoints == 666     \* uint96 public royaltyBasisPoints = 666
MaxRoyaltyBasisPoints == 1000        \* require(basisPoints <= 1000, ...)

\* ------------------------------------------------------------- input sets
PayVals == {0, 1, 2}                                   \* msg.value of a mint
FidRanges == {<<0, MaxFid>>, <<1, 1>>, <<2, 1>>}       \* (_minFid, _maxFid); the last has max < min
PricePairs == {<<2, 1>>, <<1, 1>>, <<1, 2>>}           \* (_baseMintPrice, _proMintPrice); the last has pro > base
ConstructorSupplies == {0, 1, 3}                       \* _maxSupply of the constructor
\* (_minFid, _maxFid, _baseMintPrice, _proMintPrice, _maxSupply) of updateMintingParams
ParamInputs == {<<0, MaxFid, 2, 1, 3>>, <<1, 1, 1, 1, 1>>, <<0, MaxFid, 2, 1, 1>>,
                <<2, 1, 2, 1, 3>>, <<1, 1, 1, 2, 3>>}
ProFids == {1}                                         \* FIDs whose Pro flag the oracle updates
\* (to, msg.value) of a mint: any payment to an account that can receive, and a
\* full payment to the zero address and to a contract that cannot receive
MintInputs == {<<User, v>> : v \in PayVals} \cup {<<ZeroAddress, 2>>, <<NonReceiver, 2>>}
NonOwnerParamInput == <<0, MaxFid, 2, 1, 3>>            \* the updateMintingParams call a non-owner makes
TreasuryInputs == {TreasuryAddr, NonReceiver, ZeroAddress}
OwnerCallers == {Deployer, User}                       \* msg.sender of batchMint, updateMintingParams, pause
OwnerOnly == {Deployer}                                \* msg.sender of the other onlyOwner calls
OracleCallers == {Deployer, OracleAddr, User}          \* msg.sender of an onlyOracle call

VARIABLES
    tokenIdCounter,   \* uint256 _tokenIdCounter
    mintingParams,    \* MintingParams mintingParams
    hasMinted,        \* mapping(uint256 => bool) hasMinted
    fidToTokenId,     \* mapping(uint256 => uint256) fidToTokenId
    tokenIdToFid,     \* mapping(uint256 => uint256) tokenIdToFid (keys written so far; 0 elsewhere)
    isProUser,        \* mapping(uint256 => bool) isProUser
    treasury,         \* address treasury
    oracle,           \* address oracle
    royaltyReceiver,  \* address royaltyReceiver (also ERC2981's default royalty receiver)
    royaltyBasisPoints, \* uint96 royaltyBasisPoints (also ERC2981's default royalty fraction)
    owner,            \* Ownable._owner
    paused,           \* Pausable._paused
    entered,          \* ReentrancyGuard._status == _ENTERED
    tokenOwner,       \* ERC721._owners (keys are the tokens that exist)
    balance,          \* ether received by each address from this contract's calls
    last,             \* the last external call: its function and its revert string ("" if none)
    mintingParameters, \* server.js: let mintingParameters (the backend's in-memory copy)
    http,             \* server.js: the last HTTP exchange (request line, Authorization, answer)
    authTokens,       \* server.js: const authTokens = new Map()
    authSessions,     \* server.js: const authSessions = new Map()
    transformCache,   \* server.js: const transformCache = new Map()
    now,              \* Date.now(), in units of 12 hours
    inFlight,         \* the requests whose handler is waiting at an await (a bag)
    neynar,           \* the identity provider's login state of each signer
    issuedTokens      \* every token generateAuthToken has returned: FID, time, session

vars == <<tokenIdCounter, mintingParams, hasMinted, fidToTokenId, tokenIdToFid, isProUser,
          treasury, oracle, royaltyReceiver, royaltyBasisPoints, owner, paused, entered,
          tokenOwner, balance, last, mintingParameters, http,
          authTokens, authSessions, transformCache, now, inFlight, neynar, issuedTokens>>

\* The backend's variables other than its minting parameters and the last exchange.
sessionVars == <<authTokens, authSessions, transformCache, now, inFlight, neynar, issuedTokens>>

\* The variables of the contract.
storage == <<tokenIdCounter, mintingParams, hasMinted, fidToTokenId, tokenIdToFid, isProUser,
             treasury, oracle, royaltyReceiver, royaltyBasisPoints, owner, paused, entered,
             tokenOwner, balance>>

\* The contract storage as one record.
Cur ==
    [tokenIdCounter |-> tokenIdCounter, mintingParams |-> mintingParams,
     hasMinted |-> hasMinted, fidToTokenId |-> fidToTokenId, tokenIdToFid |-> tokenIdToFid,
     isProUser |-> isProUser, treasury |-> treasury, oracle |-> oracle,
     royaltyReceiver |-> royaltyReceiver, royaltyBasisPoints |-> royaltyBasisPoints,
     owner |-> owner, paused |-> paused, entered |-> entered, tokenOwner |-> tokenOwner, balance |-> balance]

\* A transaction's outcome written to the chain, with the call recorded in `last`.
Commit(r, op) ==
    /\ tokenIdCounter' = r.s.tokenIdCounter
    /\ mintingParams' = r.s.mintingParams
    /\ hasMinted' = r.s.hasMinted
    /\ fidToTokenId' = r.s.fidToTokenId
    /\ tokenIdToFid' = r.s.tokenIdToFid
    /\ isProUser' = r.s.isProUser
    /\ treasury' = r.s.treasury
    /\ oracle' = r.s.oracle
    /\ royaltyReceiver' = r.s.royaltyReceiver
    /\ royaltyBasisPoints' = r.s.royaltyBasisPoints
    /\ owner' = r.s.owner
    /\ paused' = r.s.paused
    /\ entered' = r.s.entered
    /\ tokenOwner' = r.s.tokenOwner
    /\ balance' = r.s.balance
    /\ last' = [op |-> op, err |-> r.err]
    /\ UNCHANGED <<mintingParameters, http, sessionVars>>

\* A Solidity mapping restricted to the keys written so far.
Put(m, k, v) == [x \in (DOMAIN m) \cup {k} |-> IF x = k THEN v ELSE m[x]]

Revert(s, e) == [err |-> e, s |-> s]
Return(s) == [err |-> OK, s |-> s]

\* ------------------------------------------------------------ view functions
\* Mutant: the requireProForDiscount toggle is not read.
getMintPrice_IgnoresToggle(s, fid, isPro) ==
    IF isPro THEN s.mintingParams.proMintPrice ELSE s.mintingParams.baseMintPrice

getMintPrice(s, fid, isPro) ==
    IF isPro /\ s.mintingParams.requireProForDiscount
    THEN s.mintingParams.proMintPrice
    ELSE s.mintingParams.baseMintPrice

\* Mutant: the supply is not read.
isEligible_IgnoresSupply(s, fid) ==
    /\ ~s.hasMinted[fid]
    /\ fid >= s.mintingParams.minFid
    /\ fid <= s.mintingParams.maxFid
    /\ ~s.paused

\* Mutant: the pause flag is not read.
isEligible_IgnoresPause(s, fid) ==
    /\ ~s.hasMinted[fid]
    /\ fid >= s.mintingParams.minFid
    /\ fid <= s.mintingParams.maxFid
    /\ s.mintingParams.currentSupply < s.mintingParams.maxSupply

isEligible(s, fid) ==
    /\ ~s.hasMinted[fid]
    /\ fid >= s.mintingParams.minFid
    /\ fid <= s.mintingParams.maxFid
    /\ s.mintingParams.currentSupply < s.mintingParams.maxSupply
    /\ ~s.paused

\* ------------------------------------------------- the backend's first state
\* Ether is counted in finney (0.001 ether) throughout: parseEther('0.002') is 2.
InitialMintingParameters ==
    [minFid |-> 1, maxFid |-> 100000, baseMintPrice |-> 2, proMintPrice |-> 1,
     proDiscountPercent |-> 50, maxSupply |-> 10000, currentSupply |-> 0, paused |-> FALSE]

\* An Authorization header is the text scheme + token; without the header both are empty.
NoHeader == [scheme |-> "", token |-> ""]

\* No HTTP request has been served yet.
NoRequest == [route |-> "", authorization |-> NoHeader, status |-> 0, body |-> <<>>]

\* getTokenIdByFid and getFidByTokenId: the revert string and the value returned.
getTokenIdByFid(s, fid) ==
    IF ~s.hasMinted[fid] THEN [err |-> ErrFidNotMinted, value |-> 0]
    ELSE [err |-> OK, value |-> s.fidToTokenId[fid]]

\* _exists(tokenId) of ERC721: the token has an owner.  A mapping entry never written
\* reads as 0.
getFidByTokenId(s, tokenId) ==
    IF tokenId \notin DOMAIN s.tokenOwner THEN [err |-> ErrTokenMissing, value |-> 0]
    ELSE [err |-> OK,
          value |-> IF tokenId \in DOMAIN s.tokenIdToFid THEN s.tokenIdToFid[tokenId] ELSE 0]

\* ------------------------------------------------------------- constructor
constructor(_treasury, _oracle, _minFid, _maxFid, _baseMintPrice, _proMintPrice, _maxSupply) ==
    LET s0 == [tokenIdCounter |-> 0,
               mintingParams |-> [minFid |-> _minFid, maxFid |-> _maxFid,
                                  baseMintPrice |-> _baseMintPrice,
                                  proMintPrice |-> _proMintPrice,
                                  maxSupply |-> _maxSupply, currentSupply |-> 0,
                                  requireProForDiscount |-> TRUE],
               hasMinted |-> [f \in Fids |-> FALSE],
               fidToTokenId |-> [f \in Fids |-> 0],
               tokenIdToFid |-> <<>>,
               isProUser |-> [f \in Fids |-> FALSE],
               treasury |-> _treasury, oracle |-> _oracle,
               royaltyReceiver |-> _treasury,
               royaltyBasisPoints |-> DefaultRoyaltyBasisPoints,
               owner |-> Deployer,
               paused |-> FALSE, entered |-> FALSE, tokenOwner |-> <<>>,
               balance |-> [a \in Addresses |-> 0]]
    IN  IF _treasury = ZeroAddress THEN Revert(s0, ErrInvalidTreasury)
        ELSE IF ~(_baseMintPrice >= _proMintPrice) THEN Revert(s0, ErrPriceOrder)
        ELSE IF ~(_maxSupply > 0) THEN Revert(s0, ErrMaxSupplyZero)
        ELSE Return(s0)

Init ==
    \E t \in TreasuryInputs, rg \in FidRanges, pp \in PricePairs, ms \in ConstructorSupplies :
        LET r == constructor(t, OracleAddr, rg[1], rg[2], pp[1], pp[2], ms)
        IN  /\ r.err = OK
            /\ tokenIdCounter = r.s.tokenIdCounter
            /\ mintingParams = r.s.mintingParams
            /\ hasMinted = r.s.hasMinted
            /\ fidToTokenId = r.s.fidToTokenId
            /\ tokenIdToFid = r.s.tokenIdToFid
            /\ isProUser = r.s.isProUser
            /\ treasury = r.s.treasury
            /\ oracle = r.s.oracle
            /\ royaltyReceiver = r.s.royaltyReceiver
            /\ royaltyBasisPoints = r.s.royaltyBasisPoints
            /\ owner = r.s.owner
            /\ paused = r.s.paused
            /\ entered = r.s.entered
            /\ tokenOwner = r.s.tokenOwner
            /\ balance = r.s.balance
            /\ last = [op |-> "constructor", err |-> OK]
            /\ mintingParameters = InitialMintingParameters
            /\ http = NoRequest
            /\ authTokens = <<>>
            /\ authSessions = <<>>
            /\ transformCache = <<>>
            /\ now = 0
            /\ inFlight = EmptyBag
            /\ neynar = <<>>
            /\ issuedTokens = <<>>

\* ------------------------------------------------------------------- mint
\* treasury.call{value: v}(""): false when the callee has no payable receive/fallback.
sendValue(s, to, v) ==
    IF to = NonReceiver THEN Revert(s, "call failed")
    ELSE Return([s EXCEPT !.balance[This] = @ - v, !.balance[to] = @ + v])

\* Mutant: the hasMinted require is missing.
mintRequire_SkipsMintedCheck(s, to, fid, value) ==
    IF s.entered THEN ErrReentrant
    ELSE IF s.paused THEN ErrPaused
    ELSE IF to = ZeroAddress THEN ErrZeroRecipient
    ELSE IF ~(fid >= s.mintingParams.minFid /\ fid <= s.mintingParams.maxFid) THEN ErrFidRange
    ELSE IF ~(s.mintingParams.currentSupply < s.mintingParams.maxSupply) THEN ErrMaxSupply
    ELSE IF ~(value >= getMintPrice(s, fid, s.isProUser[fid])) THEN ErrPayment
    ELSE OK

\* Mutant: the payment must exceed the price.
mintRequire_StrictPayment(s, to, fid, value) ==
    IF s.entered THEN ErrReentrant
    ELSE IF s.paused THEN ErrPaused
    ELSE IF to = ZeroAddress THEN ErrZeroRecipient
    ELSE IF s.hasMinted[fid] THEN ErrAlreadyMinted
    ELSE IF ~(fid >= s.mintingParams.minFid /\ fid <= s.mintingParams.maxFid) THEN ErrFidRange
    ELSE IF ~(s.mintingParams.currentSupply < s.mintingParams.maxSupply) THEN ErrMaxSupply
    ELSE IF ~(value > getMintPrice(s, fid, s.isProUser[fid])) THEN ErrPayment
    ELSE OK

\* Mutant: the whenNotPaused modifier is missing.
mintRequire_SkipsPauseCheck(s, to, fid, value) ==
    IF s.entered THEN ErrReentrant
    ELSE IF to = ZeroAddress THEN ErrZeroRecipient
    ELSE IF s.hasMinted[fid] THEN ErrAlreadyMinted
    ELSE IF ~(fid >= s.mintingParams.minFid /\ fid <= s.mintingParams.maxFid) THEN ErrFidRange
    ELSE IF ~(s.mintingParams.currentSupply < s.mintingParams.maxSupply) THEN ErrMaxSupply
    ELSE IF ~(value >= getMintPrice(s, fid, s.isProUser[fid])) THEN ErrPayment
    ELSE OK

\* The modifiers (nonReentrant, whenNotPaused) and requires of mint, in the order they
\* run: the revert string of the first that fails, "" when all pass.
mintRequire(s, to, fid, value) ==
    IF s.entered THEN ErrReentrant
    ELSE IF s.paused THEN ErrPaused
    ELSE IF to = ZeroAddress THEN ErrZeroRecipient
    ELSE IF s.hasMinted[fid] THEN ErrAlreadyMinted
    ELSE IF ~(fid >= s.mintingParams.minFid /\ fid <= s.mintingParams.maxFid) THEN ErrFidRange
    ELSE IF ~(s.mintingParams.currentSupply < s.mintingParams.maxSupply) THEN ErrMaxSupply
    ELSE IF ~(value >= getMintPrice(s, fid, s.isProUser[fid])) THEN ErrPayment
    ELSE OK

\* ERC721._safeMint(to, tokenId) while _status is _ENTERED: the mint a recipient
\* contract calls from onERC721Received reverts in nonReentrant and is ignored.
safeMintEntered(s, to, tokenId) ==
    IF to = ZeroAddress THEN Revert(s, ErrMintToZero)
    ELSE IF tokenId \in DOMAIN s.tokenOwner THEN Revert(s, ErrTokenExists)
    ELSE IF to = NonReceiver THEN Revert(s, ErrNonReceiver)
    ELSE Return([s EXCEPT !.tokenOwner = Put(@, tokenId, to)])

\* The payment of mint, on the storage s3 that holds the new token and its records.
mintPayTreasury(s3, value) ==
    IF sendValue(s3, s3.treasury, value).err # OK THEN Revert(s3, ErrTreasuryTransfer)
    ELSE sendValue(s3, s3.treasury, value)

\* What mint does after _safeMint, whose outcome is r2: the records of the FID and the
\* token, the supply, the payment.
mintAfterSafeMint(r2, tokenId, fid, value) ==
    IF r2.err # OK THEN r2
    ELSE mintPayTreasury([r2.s EXCEPT !.hasMinted[fid] = TRUE,
                                      !.fidToTokenId[fid] = tokenId,
                                      !.tokenIdToFid = Put(@, tokenId, fid),
                                      !.mintingParams.currentSupply = @ + 1],
                         value)

\* The body of a mint called from a recipient's callback: it runs with _status at
\* _ENTERED.
mintBodyEntered(s, to, fid, value) ==
    mintAfterSafeMint(safeMintEntered([s EXCEPT !.tokenIdCounter = @ + 1], to, s.tokenIdCounter),
                      s.tokenIdCounter, fid, value)

\* The end of a mint that started on storage s and whose body had the outcome r.
mintFinish(s, r) ==
    IF r.err # OK THEN Revert(s, r.err)
    ELSE Return([r.s EXCEPT !.entered = FALSE])

\* mint as a recipient's callback calls it, as one call.
mintFromCallback(s, to, fid, value) ==
    IF mintRequire(s, to, fid, value) # OK THEN Revert(s, mintRequire(s, to, fid, value))
    ELSE mintFinish(s, mintBodyEntered([s EXCEPT !.balance[This] = @ + value,
                                                 !.entered = TRUE],
                                       to, fid, value))

\* The external call _safeMint makes to a recipient contract once the token is its own:
\* the recipient's onERC721Received runs on the storage of that moment and calls mint;
\* a mint that reverts leaves that storage as it was.
onERC721Received(s, to) ==
    Return(mintFromCallback(s, User, CallbackFid, CallbackValue).s)

\* ERC721._safeMint(to, tokenId) of OpenZeppelin 4.x, as mint and batchMint call it:
\* _mint, then the onERC721Received call when the recipient is a contract.
safeMint(s, to, tokenId) ==
    IF to = ZeroAddress THEN Revert(s, ErrMintToZero)
    ELSE IF tokenId \in DOMAIN s.tokenOwner THEN Revert(s, ErrTokenExists)
    ELSE IF to = NonReceiver THEN Revert(s, ErrNonReceiver)
    ELSE IF to \in Reenterers
         THEN onERC721Received([s EXCEPT !.tokenOwner = Put(@, tokenId, to)], to)
    ELSE Return([s EXCEPT !.tokenOwner = Put(@, tokenId, to)])

\* Mutant: only the price is forwarded to the treasury; an overpayment stays in the
\* contract.
mintBody_ForwardsPriceOnly(s, to, fid, value) ==
    LET tokenId == s.tokenIdCounter
        s1 == [s EXCEPT !.tokenIdCounter = @ + 1]
        r2 == safeMint(s1, to, tokenId)
        s3 == [r2.s EXCEPT !.hasMinted[fid] = TRUE,
                           !.fidToTokenId[fid] = tokenId,
                           !.tokenIdToFid = Put(@, tokenId, fid),
                           !.mintingParams.currentSupply = @ + 1]
        r4 == sendValue(s3, s3.treasury, getMintPrice(s, fid, s.isProUser[fid]))
    IN  IF r2.err # OK THEN r2
        ELSE IF r4.err # OK THEN Revert(s3, ErrTreasuryTransfer)
        ELSE r4

\* Mutant: _tokenIdCounter is not incremented.
mintBody_NoCounterIncrement(s, to, fid, value) ==
    LET tokenId == s.tokenIdCounter
        r2 == safeMint(s, to, tokenId)
        s3 == [r2.s EXCEPT !.hasMinted[fid] = TRUE,
                           !.fidToTokenId[fid] = tokenId,
                           !.tokenIdToFid = Put(@, tokenId, fid),
                           !.mintingParams.currentSupply = @ + 1]
        r4 == sendValue(s3, s3.treasury, value)
    IN  IF r2.err # OK THEN r2
        ELSE IF r4.err # OK THEN Revert(s3, ErrTreasuryTransfer)
        ELSE r4

\* The body of mint after its requires.
mintBody(s, to, fid, value) ==
    LET tokenId == s.tokenIdCounter
        s1 == [s EXCEPT !.tokenIdCounter = @ + 1]
        r2 == safeMint(s1, to, tokenId)
        s3 == [r2.s EXCEPT !.hasMinted[fid] = TRUE,
                           !.fidToTokenId[fid] = tokenId,
                           !.tokenIdToFid = Put(@, tokenId, fid),
                           !.mintingParams.currentSupply = @ + 1]
        r4 == sendValue(s3, s3.treasury, value)
    IN  IF r2.err # OK THEN r2
        ELSE IF r4.err # OK THEN Revert(s3, ErrTreasuryTransfer)
        ELSE r4

\* Mutant: the payment is checked after the FID has been marked, and the call returns
\* instead of reverting.
mint_MarksBeforePaymentCheck(s, to, fid, value) ==
    LET e == mintRequire(s, to, fid, value)
        r == mintBody([s EXCEPT !.balance[This] = @ + value, !.entered = TRUE], to, fid, value)
    IN  IF e = ErrPayment THEN [err |-> e, s |-> [s EXCEPT !.hasMinted[fid] = TRUE]]
        ELSE IF e # OK THEN Revert(s, e)
        ELSE IF r.err # OK THEN Revert(s, r.err)
        ELSE Return([r.s EXCEPT !.entered = FALSE])

\* mint as one call: a revert anywhere in it restores the storage it started from.
\* msg.value is credited to the contract when the call starts, and nonReentrant holds
\* _status at _ENTERED while the body runs.
mint(s, to, fid, value) ==
    LET e == mintRequire(s, to, fid, value)
        r == mintBody([s EXCEPT !.balance[This] = @ + value, !.entered = TRUE], to, fid, value)
    IN  IF e # OK THEN Revert(s, e)
        ELSE IF r.err # OK THEN Revert(s, r.err)
        ELSE Return([r.s EXCEPT !.entered = FALSE])

Mint ==
    \E inp \in MintInputs, fid \in Fids :
        LET r == mint(Cur, inp[1], fid, inp[2])
        IN  /\ r.s.tokenIdCounter <= MaxTokens
            /\ Commit(r, "mint")

\* -------------------------------------------------------------- batchMint
\* Mutant: the oracle passes onlyOwner too.
onlyOwner_AcceptsOracle(s, sender) ==
    IF sender = s.owner \/ sender = s.oracle THEN OK ELSE ErrNotOwner

\* onlyOwner of OpenZeppelin's Ownable.
onlyOwner(s, sender) == IF sender = s.owner THEN OK ELSE ErrNotOwner

\* One iteration of batchMint's loop for item i.
batchMintItem(s, to, fid) ==
    IF s.hasMinted[fid] THEN Revert(s, ErrBatchAlreadyMinted)
    ELSE IF ~(s.mintingParams.currentSupply < s.mintingParams.maxSupply) THEN Revert(s, ErrMaxSupply)
    ELSE LET tokenId == s.tokenIdCounter
             s1 == [s EXCEPT !.tokenIdCounter = @ + 1]
             r2 == safeMint(s1, to, tokenId)
         IN  IF r2.err # OK THEN r2
             ELSE Return([r2.s EXCEPT !.hasMinted[fid] = TRUE,
                                      !.fidToTokenId[fid] = tokenId,
                                      !.tokenIdToFid = Put(@, tokenId, fid),
                                      !.mintingParams.currentSupply = @ + 1])

\* The loop of batchMint from index i on; it stops at the first item that reverts.
RECURSIVE batchMintLoop(_, _, _, _)
batchMintLoop(s, recipients, fids, i) ==
    IF i > Len(recipients) THEN Return(s)
    ELSE LET r == batchMintItem(s, recipients[i], fids[i])
         IN  IF r.err # OK THEN r
             ELSE batchMintLoop(r.s, recipients, fids, i + 1)

\* Mutant: a failing item ends the call with the items before it kept.
batchMint_KeepsItemsBeforeFailure(s, sender, recipients, nURIs, fids) ==
    IF onlyOwner(s, sender) # OK THEN Revert(s, onlyOwner(s, sender))
    ELSE IF ~(Len(recipients) = nURIs /\ Len(recipients) = Len(fids)) THEN Revert(s, ErrArrayLengths)
    ELSE batchMintLoop(s, recipients, fids, 1)

\* nURIs is tokenURIs.length.
batchMint(s, sender, recipients, nURIs, fids) ==
    IF onlyOwner(s, sender) # OK THEN Revert(s, onlyOwner(s, sender))
    ELSE IF ~(Len(recipients) = nURIs /\ Len(recipients) = Len(fids)) THEN Revert(s, ErrArrayLengths)
    ELSE LET r == batchMintLoop(s, recipients, fids, 1)
         IN  IF r.err # OK THEN Revert(s, r.err) ELSE r

\* The batches tried, as (recipients, tokenURIs.length, fids): none, one or two items
\* (a FID possibly twice), two whose last recipient cannot receive, and one call whose
\* arrays differ in length.
Batches ==
    {<<(<<>>), 0, (<<>>)>>, <<(<<User>>), 1, (<<>>)>>}
    \cup {<<(<<User>>), 1, (<<f>>)>> : f \in Fids}
    \cup {<<(<<User, User>>), 2, (<<fg[1], fg[2]>>)>> : fg \in {x \in Fids \X Fids : x[1] <= x[2]}}
    \cup {<<(<<NonReceiver>>), 1, (<<0>>)>>, <<(<<User, NonReceiver>>), 2, (<<0, MaxFid>>)>>}

BatchMint ==
    \E sender \in OwnerCallers, b \in Batches :
        LET r == batchMint(Cur, sender, b[1], b[2], b[3])
        IN  /\ sender # Deployer => b[2] = 0
            /\ r.s.tokenIdCounter <= MaxTokens
            /\ Commit(r, "batchMint")

\* ------------------------------------------------------------ admin functions
\* Mutant: the prices are written before the FID range is checked, and a bad range makes
\* the call return without reverting.
updateMintingParams_WritesPricesFirst(s, sender, _minFid, _maxFid, _baseMintPrice, _proMintPrice, _maxSupply) ==
    IF onlyOwner(s, sender) # OK THEN Revert(s, onlyOwner(s, sender))
    ELSE IF ~(_baseMintPrice >= _proMintPrice) THEN Revert(s, ErrPriceOrder)
    ELSE IF ~(_maxSupply >= s.mintingParams.currentSupply) THEN Revert(s, ErrMaxSupplyBelow)
    ELSE IF ~(_maxFid >= _minFid)
         THEN [err |-> ErrInvalidRange,
               s |-> [s EXCEPT !.mintingParams.baseMintPrice = _baseMintPrice,
                               !.mintingParams.proMintPrice = _proMintPrice]]
    ELSE Return([s EXCEPT !.mintingParams.minFid = _minFid,
                          !.mintingParams.maxFid = _maxFid,
                          !.mintingParams.baseMintPrice = _baseMintPrice,
                          !.mintingParams.proMintPrice = _proMintPrice,
                          !.mintingParams.maxSupply = _maxSupply])

updateMintingParams(s, sender, _minFid, _maxFid, _baseMintPrice, _proMintPrice, _maxSupply) ==
    IF onlyOwner(s, sender) # OK THEN Revert(s, onlyOwner(s, sender))
    ELSE IF ~(_baseMintPrice >= _proMintPrice) THEN Revert(s, ErrPriceOrder)
    ELSE IF ~(_maxSupply >= s.mintingParams.currentSupply) THEN Revert(s, ErrMaxSupplyBelow)
    ELSE IF ~(_maxFid >= _minFid) THEN Revert(s, ErrInvalidRange)
    ELSE Return([s EXCEPT !.mintingParams.minFid = _minFid,
                          !.mintingParams.maxFid = _maxFid,
                          !.mintingParams.baseMintPrice = _baseMintPrice,
                          !.mintingParams.proMintPrice = _proMintPrice,
                          !.mintingParams.maxSupply = _maxSupply])

\* Mutant: a new range clears the hasMinted flag of the FIDs it leaves out.
updateFidRange_ResetsOutOfRange(s, sender, _minFid, _maxFid) ==
    IF onlyOwner(s, sender) # OK THEN Revert(s, onlyOwner(s, sender))
    ELSE IF ~(_maxFid >= _minFid) THEN Revert(s, ErrInvalidRange)
    ELSE Return([s EXCEPT !.mintingParams.minFid = _minFid,
                          !.mintingParams.maxFid = _maxFid,
                          !.hasMinted = [f \in Fids |->
                                            @[f] /\ f >= _minFid /\ f <= _maxFid]])

updateFidRange(s, sender, _minFid, _maxFid) ==
    IF onlyOwner(s, sender) # OK THEN Revert(s, onlyOwner(s, sender))
    ELSE IF ~(_maxFid >= _minFid) THEN Revert(s, ErrInvalidRange)
    ELSE Return([s EXCEPT !.mintingParams.minFid = _minFid,
                          !.mintingParams.maxFid = _maxFid])

\* Mutant: the price-order require is missing.
updateMintPrices_NoCheck(s, sender, _baseMintPrice, _proMintPrice) ==
    IF onlyOwner(s, sender) # OK THEN Revert(s, onlyOwner(s, sender))
    ELSE Return([s EXCEPT !.mintingParams.baseMintPrice = _baseMintPrice,
                          !.mintingParams.proMintPrice = _proMintPrice])

updateMintPrices(s, sender, _baseMintPrice, _proMintPrice) ==
    IF onlyOwner(s, sender) # OK THEN Revert(s, onlyOwner(s, sender))
    ELSE IF ~(_baseMintPrice >= _proMintPrice) THEN Revert(s, ErrPriceOrder)
    ELSE Return([s EXCEPT !.mintingParams.baseMintPrice = _baseMintPrice,
                          !.mintingParams.proMintPrice = _proMintPrice])

\* Mutant: the owner does not pass onlyOracle.
onlyOracle_OracleOnly(s, sender) ==
    IF sender = s.oracle THEN OK ELSE ErrNotAuthorized

\* The onlyOracle modifier.
onlyOracle(s, sender) ==
    IF sender = s.oracle \/ sender = s.owner THEN OK ELSE ErrNotAuthorized

\* Mutant: the Pro flag of a FID that has minted is frozen.
updateProStatus_FrozenAfterMint(s, sender, fid, isPro) ==
    IF onlyOracle(s, sender) # OK THEN Revert(s, onlyOracle(s, sender))
    ELSE IF s.hasMinted[fid] THEN Return(s)
    ELSE Return([s EXCEPT !.isProUser[fid] = isPro])

updateProStatus(s, sender, fid, isPro) ==
    IF onlyOracle(s, sender) # OK THEN Revert(s, onlyOracle(s, sender))
    ELSE Return([s EXCEPT !.isProUser[fid] = isPro])

\* The loop of batchUpdateProStatus from index i on.
RECURSIVE batchUpdateProStatusLoop(_, _, _, _)
batchUpdateProStatusLoop(s, fids, statuses, i) ==
    IF i > Len(fids) THEN s
    ELSE batchUpdateProStatusLoop([s EXCEPT !.isProUser[fids[i]] = statuses[i]],
                                  fids, statuses, i + 1)

batchUpdateProStatus(s, sender, fids, statuses) ==
    IF onlyOracle(s, sender) # OK THEN Revert(s, onlyOracle(s, sender))
    ELSE IF ~(Len(fids) = Len(statuses)) THEN Revert(s, ErrArrayLengths)
    ELSE Return(batchUpdateProStatusLoop(s, fids, statuses, 1))

updateOracle(s, sender, newOracle) ==
    IF onlyOwner(s, sender) # OK THEN Revert(s, onlyOwner(s, sender))
    ELSE IF newOracle = ZeroAddress THEN Revert(s, ErrInvalidOracle)
    ELSE Return([s EXCEPT !.oracle = newOracle])

\* Mutant: the zero address is accepted.
updateTreasury_AcceptsZero(s, sender, newTreasury) ==
    IF onlyOwner(s, sender) # OK THEN Revert(s, onlyOwner(s, sender))
    ELSE Return([s EXCEPT !.treasury = newTreasury])

updateTreasury(s, sender, newTreasury) ==
    IF onlyOwner(s, sender) # OK THEN Revert(s, onlyOwner(s, sender))
    ELSE IF newTreasury = ZeroAddress THEN Revert(s, ErrInvalidTreasury)
    ELSE Return([s EXCEPT !.treasury = newTreasury])

\* Mutant: the cap on the basis points is missing.
updateRoyalty_NoCap(s, sender, receiver, basisPoints) ==
    IF onlyOwner(s, sender) # OK THEN Revert(s, onlyOwner(s, sender))
    ELSE IF receiver = ZeroAddress THEN Revert(s, ErrInvalidRoyaltyReceiver)
    ELSE Return([s EXCEPT !.royaltyReceiver = receiver,
                          !.royaltyBasisPoints = basisPoints])

updateRoyalty(s, sender, receiver, basisPoints) ==
    IF onlyOwner(s, sender) # OK THEN Revert(s, onlyOwner(s, sender))
    ELSE IF receiver = ZeroAddress THEN Revert(s, ErrInvalidRoyaltyReceiver)
    ELSE IF ~(basisPoints <= MaxRoyaltyBasisPoints) THEN Revert(s, ErrRoyaltyTooHigh)
    ELSE Return([s EXCEPT !.royaltyReceiver = receiver,
                          !.royaltyBasisPoints = basisPoints])

\* Ownable.transferOwnership of OpenZeppelin 4.x.
transferOwnership(s, sender, newOwner) ==
    IF onlyOwner(s, sender) # OK THEN Revert(s, onlyOwner(s, sender))
    ELSE IF newOwner = ZeroAddress THEN Revert(s, ErrNewOwnerZero)
    ELSE Return([s EXCEPT !.owner = newOwner])

emergencyWithdraw(s, sender) ==
    IF onlyOwner(s, sender) # OK THEN Revert(s, onlyOwner(s, sender))
    ELSE IF ~(s.balance[This] > 0) THEN Revert(s, ErrNoBalance)
    ELSE LET r == sendValue(s, s.owner, s.balance[This])
         IN  IF r.err # OK THEN Revert(s, ErrWithdrawalFailed) ELSE r

setRequireProForDiscount(s, sender, required) ==
    IF onlyOwner(s, sender) # OK THEN Revert(s, onlyOwner(s, sender))
    ELSE Return([s EXCEPT !.mintingParams.requireProForDiscount = required])

\* pause() -> Pausable._pause(), itself whenNotPaused.
pause(s, sender) ==
    IF onlyOwner(s, sender) # OK THEN Revert(s, onlyOwner(s, sender))
    ELSE IF s.paused THEN Revert(s, ErrPaused)
    ELSE Return([s EXCEPT !.paused = TRUE])

\* unpause() -> Pausable._unpause(), itself whenPaused.
unpause(s, sender) ==
    IF onlyOwner(s, sender) # OK THEN Revert(s, onlyOwner(s, sender))
    ELSE IF ~s.paused THEN Revert(s, ErrNotPaused)
    ELSE Return([s EXCEPT !.paused = FALSE])

UpdateMintingParams ==
    \E sender \in OwnerCallers, p \in ParamInputs :
        /\ sender # Deployer => p = NonOwnerParamInput
        /\ Commit(updateMintingParams(Cur, sender, p[1], p[2], p[3], p[4], p[5]),
               "updateMintingParams")

UpdateFidRange ==
    \E sender \in OwnerOnly, rg \in FidRanges :
        Commit(updateFidRange(Cur, sender, rg[1], rg[2]), "updateFidRange")

UpdateMintPrices ==
    \E sender \in OwnerOnly, pp \in PricePairs :
        Commit(updateMintPrices(Cur, sender, pp[1], pp[2]), "updateMintPrices")

UpdateProStatus ==
    \E sender \in OracleCallers, fid \in ProFids, isPro \in BOOLEAN :
        Commit(updateProStatus(Cur, sender, fid, isPro), "updateProStatus")

SetRequireProForDiscount ==
    \E sender \in OwnerOnly, required \in BOOLEAN :
        Commit(setRequireProForDiscount(Cur, sender, required), "setRequireProForDiscount")

Pause == \E sender \in OwnerCallers : Commit(pause(Cur, sender), "pause")

Unpause == \E sender \in OwnerOnly : Commit(unpause(Cur, sender), "unpause")

Next ==
    \/ Mint
    \/ BatchMint
    \/ UpdateMintingParams
    \/ UpdateFidRange
    \/ UpdateMintPrices
    \/ UpdateProStatus
    \/ SetRequireProForDiscount
    \/ Pause
    \/ Unpause

Spec == Init /\ [][Next]_vars

\* ------------------------------------------- calls whose recipient is a contract
\* (recipient, fid) of a mint to a contract that calls back.
ContractMintInputs == {<<a, f>> : a \in Reenterers, f \in {0, MaxFid}}

MintToContract ==
    \E inp \in ContractMintInputs :
        LET r == mint(Cur, inp[1], inp[2], CallbackValue)
        IN  /\ r.s.tokenIdCounter <= MaxTokens
            /\ Commit(r, "mint")

\* The owner's batches with a recipient contract that calls back: one item, for the FID
\* the callback mints or for another one.
ContractBatches == {<<(<<a>>), 1, (<<f>>)>> : a \in Reenterers, f \in {0, 1}}

BatchMintToContract ==
    \E b \in ContractBatches :
        LET r == batchMint(Cur, Deployer, b[1], b[2], b[3])
        IN  /\ r.s.tokenIdCounter <= MaxTokens
            /\ Commit(r, "batchMint")

NextReentrant ==
    \/ Next
    \/ MintToContract
    \/ BatchMintToContract

SpecReentrant == Init /\ [][NextReentrant]_vars

\* --------------------------------------------------- role and royalty calls
RoleCallers == {Deployer, OracleAddr, User}             \* msg.sender of the calls below
\* (fids, statuses) of batchUpdateProStatus; the last has arrays of different lengths
ProBatches == {<<(<<>>), (<<>>)>>, <<(<<0, 1>>), (<<TRUE, TRUE>>)>>,
               <<(<<1, 1>>), (<<TRUE, FALSE>>)>>, <<(<<1>>), (<<>>)>>}
OracleInputs == {OracleAddr, User, ZeroAddress}         \* newOracle
OwnerInputs == {Deployer, User, ZeroAddress}            \* newOwner
\* (receiver, basisPoints) of updateRoyalty
RoyaltyInputs == {<<User, MaxRoyaltyBasisPoints>>, <<User, MaxRoyaltyBasisPoints + 1>>,
                  <<ZeroAddress, DefaultRoyaltyBasisPoints>>}

BatchUpdateProStatus ==
    \E sender \in RoleCallers, b \in ProBatches :
        Commit(batchUpdateProStatus(Cur, sender, b[1], b[2]), "batchUpdateProStatus")

UpdateOracle ==
    \E sender \in RoleCallers, newOracle \in OracleInputs :
        Commit(updateOracle(Cur, sender, newOracle), "updateOracle")

UpdateTreasury ==
    \E sender \in RoleCallers, newTreasury \in TreasuryInputs :
        Commit(updateTreasury(Cur, sender, newTreasury), "updateTreasury")

UpdateRoyalty ==
    \E sender \in RoleCallers, ry \in RoyaltyInputs :
        Commit(updateRoyalty(Cur, sender, ry[1], ry[2]), "updateRoyalty")

TransferOwnership ==
    \E sender \in RoleCallers, newOwner \in OwnerInputs :
        Commit(transferOwnership(Cur, sender, newOwner), "transferOwnership")

EmergencyWithdraw ==
    \E sender \in RoleCallers : Commit(emergencyWithdraw(Cur, sender), "emergencyWithdraw")

\* One deployment: FIDs 0..MaxFid, base price 2, Pro price 1, supply 3, a treasury
\* that accepts payment.
InitRoles ==
    /\ Init
    /\ treasury = TreasuryAddr
    /\ mintingParams = constructor(TreasuryAddr, OracleAddr, 0, MaxFid, 2, 1, 3).s.mintingParams

NextRoles ==
    \/ Mint
    \/ UpdateProStatus
    \/ Pause
    \/ Unpause
    \/ BatchUpdateProStatus
    \/ UpdateOracle
    \/ UpdateTreasury
    \/ UpdateRoyalty
    \/ TransferOwnership
    \/ EmergencyWithdraw

SpecRoles == InitRoles /\ [][NextRoles]_vars

\* ------------------------------------------------ payments and the treasury
\* newTreasury of updateTreasury: also an account that was not the treasury before
NewTreasuries == TreasuryInputs \cup {User}

ReplaceTreasury ==
    \E sender \in RoleCallers, newTreasury \in NewTreasuries :
        Commit(updateTreasury(Cur, sender, newTreasury), "updateTreasury")

NextPayments ==
    \/ Mint
    \/ UpdateProStatus
    \/ ReplaceTreasury
    \/ UpdateOracle
    \/ EmergencyWithdraw

SpecPayments == InitRoles /\ [][NextPayments]_vars

\* ======================================================================
\* The backend (server.js)
\* ======================================================================
\* IEEE NaN, the value of parseInt and parseFloat on text that is no number; every
\* comparison with it is false.
NaN == 0 - 999

\* JavaScript's >=, <=, <, > on numbers.
jsGe(a, b) == a # NaN /\ b # NaN /\ a >= b
jsLe(a, b) == a # NaN /\ b # NaN /\ a <= b
jsLt(a, b) == a # NaN /\ b # NaN /\ a < b
jsGt(a, b) == a # NaN /\ b # NaN /\ a > b

\* The decimal text of a small integer, as a client writes it in a path or a JSON body.
DecimalText == <<"0", "1", "2", "3", "4", "5", "6", "7", "8", "9">>
decimal(n) == DecimalText[n + 1]

\* parseInt(text): the integer the text starts with, NaN when it starts with none.
parseInt(text) ==
    IF \E n \in 0..9 : decimal(n) = text THEN CHOOSE n \in 0..9 : decimal(n) = text
    ELSE IF text = "1.5" THEN 1
    ELSE NaN

\* The texts ethers.utils.parseEther accepts, among those used here; it throws
\* 'invalid decimal value' on the others.
EtherTexts == {"0.001", "0.002", "0.003"}

\* ethers.utils.parseEther(text), in finney.
parseEther(text) ==
    CASE text = "0.001" -> 1
      [] text = "0.002" -> 2
      [] text = "0.003" -> 3

\* parseFloat(text), in finney.
parseFloat(text) == IF text \in EtherTexts THEN parseEther(text) ELSE NaN

\* Math.round((1 - pro / base) * 100) for the values of parseFloat (none of them is 0):
\* Math.round rounds a half up.
proDiscountPercent(pro, base) ==
    IF pro = NaN \/ base = NaN THEN NaN
    ELSE (200 * (base - pro) + base) \div (2 * base)

\* Boolean(v) of a JSON value given as its text.
jsBoolean(text) == text \notin {"false", "0", "null", "\"\""}

\* Mutant: currentSupply is taken from the request body like the other fields.
updateParameters_WritesCurrentSupply(mp, body) ==
    LET has(k) == k \in DOMAIN body
        m1 == IF has("minFid") THEN [mp EXCEPT !.minFid = parseInt(body.minFid)] ELSE mp
        m2 == IF has("maxFid") THEN [m1 EXCEPT !.maxFid = parseInt(body.maxFid)] ELSE m1
        m3 == IF has("baseMintPrice")
              THEN [m2 EXCEPT !.baseMintPrice = parseEther(body.baseMintPrice)]
              ELSE m2
        m4 == IF has("proMintPrice")
              THEN [m3 EXCEPT !.proMintPrice = parseEther(body.proMintPrice),
                              !.proDiscountPercent =
                                  proDiscountPercent(parseFloat(body.proMintPrice),
                                                     IF has("baseMintPrice")
                                                     THEN parseFloat(body.baseMintPrice)
                                                     ELSE NaN)]
              ELSE m3
        m5 == IF has("maxSupply") THEN [m4 EXCEPT !.maxSupply = parseInt(body.maxSupply)] ELSE m4
        m5b == IF has("paused") THEN [m5 EXCEPT !.paused = jsBoolean(body.paused)] ELSE m5
        m6 == IF has("currentSupply")
              THEN [m5b EXCEPT !.currentSupply = parseInt(body.currentSupply)]
              ELSE m5b
    IN  IF has("baseMintPrice") /\ body.baseMintPrice \notin EtherTexts
        THEN [status |-> 500, parameters |-> m2]
        ELSE IF has("proMintPrice") /\ body.proMintPrice \notin EtherTexts
        THEN [status |-> 500, parameters |-> m3]
        ELSE [status |-> 200, parameters |-> m6]

\* POST /api/admin/update-parameters on the parameters mp, with the fields of body that
\* are present: the answer's status and the parameters it leaves.  The handler writes
\* field by field; when parseEther throws, the catch answers 500 and what was written
\* before stays.
updateParameters(mp, body) ==
    LET has(k) == k \in DOMAIN body
        m1 == IF has("minFid") THEN [mp EXCEPT !.minFid = parseInt(body.minFid)] ELSE mp
        m2 == IF has("maxFid") THEN [m1 EXCEPT !.maxFid = parseInt(body.maxFid)] ELSE m1
        m3 == IF has("baseMintPrice")
              THEN [m2 EXCEPT !.baseMintPrice = parseEther(body.baseMintPrice)]
              ELSE m2
        m4 == IF has("proMintPrice")
              THEN [m3 EXCEPT !.proMintPrice = parseEther(body.proMintPrice),
                              !.proDiscountPercent =
                                  proDiscountPercent(parseFloat(body.proMintPrice),
                                                     IF has("baseMintPrice")
                                                     THEN parseFloat(body.baseMintPrice)
                                                     ELSE NaN)]
              ELSE m3
        m5 == IF has("maxSupply") THEN [m4 EXCEPT !.maxSupply = parseInt(body.maxSupply)] ELSE m4
        m6 == IF has("paused") THEN [m5 EXCEPT !.paused = jsBoolean(body.paused)] ELSE m5
    IN  IF has("baseMintPrice") /\ body.baseMintPrice \notin EtherTexts
        THEN [status |-> 500, parameters |-> m2]
        ELSE IF has("proMintPrice") /\ body.proMintPrice \notin EtherTexts
        THEN [status |-> 500, parameters |-> m3]
        ELSE [status |-> 200, parameters |-> m6]

\* GET /api/check-eligibility/:fid on the parameters mp: the JSON it answers.
checkEligibility(mp, fidParam) ==
    LET fid == parseInt(fidParam)
    IN  [isEligible |-> /\ jsGe(fid, mp.minFid)
                        /\ jsLe(fid, mp.maxFid)
                        /\ jsLt(mp.currentSupply, mp.maxSupply)
                        /\ ~mp.paused,
         reason |-> IF jsLt(fid, mp.minFid) \/ jsGt(fid, mp.maxFid)
                    THEN "FID must be between minFid and maxFid"
                    ELSE IF jsGe(mp.currentSupply, mp.maxSupply) THEN "Max supply reached"
                    ELSE IF mp.paused THEN "Minting is currently paused"
                    ELSE "",
         fid |-> fid]

\* The Authorization header of a request: none, or a bearer token.
Authorizations == {NoHeader, [scheme |-> "Bearer ", token |-> "token"]}

\* The request bodies sent to update-parameters: the emergency pause and its end, the
\* parameters of the deployed contract, a body whose price is no decimal text, and one
\* whose FID range and prices are inverted, and one that names currentSupply.
ParameterBodies ==
    {[paused |-> "true"], [paused |-> "false"],
     [minFid |-> "0", maxFid |-> decimal(MaxFid), baseMintPrice |-> "0.002",
      proMintPrice |-> "0.001", maxSupply |-> "3"],
     [minFid |-> "2", baseMintPrice |-> "abc"],
     [minFid |-> "2", maxFid |-> "1", baseMintPrice |-> "0.001", proMintPrice |-> "0.002"],
     [currentSupply |-> "5"]}

\* The :fid path segments requested.
FidParams == {decimal(f) : f \in Fids} \cup {"abc"}

UpdateParameters ==
    \E authorization \in Authorizations, body \in ParameterBodies :
        LET r == updateParameters(mintingParameters, body)
        IN  /\ mintingParameters' = r.parameters
            /\ http' = [route |-> "POST /api/admin/update-parameters",
                        authorization |-> authorization, status |-> r.status,
                        body |-> IF r.status = 200 THEN [success |-> TRUE]
                                 ELSE [error |-> "invalid decimal value"]]
            /\ UNCHANGED <<storage, last, sessionVars>>

CheckEligibility ==
    \E fidParam \in FidParams :
        /\ http' = [route |-> "GET /api/check-eligibility/:fid", authorization |-> NoHeader,
                    status |-> 200, body |-> checkEligibility(mintingParameters, fidParam)]
        /\ UNCHANGED <<storage, last, mintingParameters, sessionVars>>

\* The backend next to the contract it serves: the API requests, and the mints and the
\* owner's pause on the chain.
NextBackend ==
    \/ UpdateParameters
    \/ CheckEligibility
    \/ Mint
    \/ Pause
    \/ Unpause

SpecBackend == InitRoles /\ [][NextBackend]_vars

\* ---------------------------------------------------------- authentication
MaxTime == 3         \* the clock runs from 0 to MaxTime
MaxSessions == 1     \* auth sessions created
MaxIssued == 2       \* auth tokens generated
MaxInFlight == 2     \* requests waiting at an await at once

TokenLifetime == 2   \* 24 * 60 * 60 * 1000 ms, in units of 12 hours

\* crypto.randomBytes(..).toString('hex'): the n-th value drawn of each kind; no value is
\* drawn twice.
AuthTokenNames == <<"token1", "token2", "token3", "token4">>
ChannelTokenNames == <<"channel1", "channel2", "channel3">>
NonceNames == <<"nonce1", "nonce2", "nonce3">>
\* signer_uuid of the provider's answer to the n-th login request.
SignerUuidNames == <<"signer1", "signer2", "signer3">>

\* FIDs of the users who log in.
LoginFids == {1, 2}

\* A Map without the key k.
Remove(m, k) == [x \in (DOMAIN m) \ {k} |-> m[x]]

\* null, as verifyAuthToken returns it.
NoSession == [fid |-> NaN, createdAt |-> NaN, expiresAt |-> NaN]

\* generateAuthToken(fid) at time t, when `drawn` tokens have been generated before:
\* the token and the Map with it.
generateAuthToken(at, drawn, t, fid) ==
    [token |-> AuthTokenNames[drawn + 1],
     authTokens |-> Put(at, AuthTokenNames[drawn + 1],
                        [fid |-> parseInt(decimal(fid)), createdAt |-> t,
                         expiresAt |-> t + TokenLifetime])]

\* Mutant: a token is refused from the instant it expires.
verifyAuthToken_RefusesAtExpiry(at, t, token) ==
    IF token \notin DOMAIN at THEN [session |-> NoSession, authTokens |-> at]
    ELSE IF t >= at[token].expiresAt
         THEN [session |-> NoSession, authTokens |-> Remove(at, token)]
    ELSE [session |-> at[token], authTokens |-> at]

\* verifyAuthToken(token) at time t: the session or null, and the Map it leaves.
verifyAuthToken(at, t, token) ==
    IF token \notin DOMAIN at THEN [session |-> NoSession, authTokens |-> at]
    ELSE IF t > at[token].expiresAt
         THEN [session |-> NoSession, authTokens |-> Remove(at, token)]
    ELSE [session |-> at[token], authTokens |-> at]

\* requireAuth at time t: whether next() is called, req.userFid, the 401 answer
\* otherwise, and the Map it leaves.
requireAuth(at, t, header) ==
    IF header.scheme # "Bearer "
    THEN [next |-> FALSE, status |-> 401, error |-> "Unauthorized", userFid |-> NaN,
          authTokens |-> at]
    ELSE IF verifyAuthToken(at, t, header.token).session = NoSession
    THEN [next |-> FALSE, status |-> 401, error |-> "Invalid or expired token",
          userFid |-> NaN, authTokens |-> verifyAuthToken(at, t, header.token).authTokens]
    ELSE [next |-> TRUE, status |-> 0, error |-> "",
          userFid |-> verifyAuthToken(at, t, header.token).session.fid,
          authTokens |-> verifyAuthToken(at, t, header.token).authTokens]

\* The Authorization headers sent: none, another scheme, a bearer token that was never
\* issued, and the tokens that can be issued.
Headers ==
    {NoHeader, [scheme |-> "Basic ", token |-> AuthTokenNames[1]],
     [scheme |-> "Bearer ", token |-> "forged"]}
    \cup {[scheme |-> "Bearer ", token |-> AuthTokenNames[n]] : n \in 1..MaxIssued}

\* GET /api/auth/status/:channelToken up to its await: the answer, or the wait for the
\* provider.
statusBegin(sessions, channelToken) ==
    IF channelToken \notin DOMAIN sessions
    THEN [awaits |-> FALSE, status |-> 404, body |-> [error |-> "Session not found"]]
    ELSE IF sessions[channelToken].state = "completed"
    THEN [awaits |-> FALSE, status |-> 200,
          body |-> [state |-> "completed", fid |-> sessions[channelToken].fid,
                    token |-> sessions[channelToken].token]]
    ELSE [awaits |-> TRUE, status |-> 0, body |-> <<>>]

\* The same handler from the provider's answer on: the handler still holds the session
\* object it read before the await, which is the object the Map holds now.
statusEnd(at, sessions, drawn, t, channelToken, response) ==
    IF ~response.ok
    THEN [status |-> 500, body |-> [error |-> "Failed to check auth status"],
          authTokens |-> at, authSessions |-> sessions, issued |-> FALSE]
    ELSE IF response.state = "completed"
    THEN [status |-> 200,
          body |-> [state |-> "completed", fid |-> response.fid,
                    token |-> generateAuthToken(at, drawn, t, response.fid).token],
          authTokens |-> generateAuthToken(at, drawn, t, response.fid).authTokens,
          authSessions |->
              [sessions EXCEPT ![channelToken] =
                  [state |-> "completed", fid |-> response.fid,
                   custodyAddress |-> response.custody_address,
                   token |-> generateAuthToken(at, drawn, t, response.fid).token] @@ @],
          issued |-> TRUE]
    ELSE [status |-> 200, body |-> [state |-> "pending"],
          authTokens |-> at, authSessions |-> sessions, issued |-> FALSE]

\* What the provider answers to a login status request for a signer: its state, or an
\* error.
LoginResponses(signerUuid) ==
    {[ok |-> FALSE],
     [ok |-> TRUE, state |-> neynar[signerUuid].state, fid |-> neynar[signerUuid].fid,
      custody_address |-> "custody"]}

\* POST /api/auth/challenge: the provider is asked first; a session is stored when it
\* answers.
Challenge ==
    \E ok \in BOOLEAN :
        LET n == Cardinality(DOMAIN authSessions) + 1
        IN  /\ n <= MaxSessions
            /\ IF ok
               THEN /\ authSessions' = Put(authSessions, ChannelTokenNames[n],
                                           [signerUuid |-> SignerUuidNames[n],
                                            nonce |-> NonceNames[n], state |-> "pending",
                                            createdAt |-> now])
                    /\ neynar' = Put(neynar, SignerUuidNames[n], [state |-> "pending", fid |-> NaN])
                    /\ http' = [route |-> "POST /api/auth/challenge", authorization |-> NoHeader,
                                status |-> 200,
                                body |-> [channelToken |-> ChannelTokenNames[n],
                                          nonce |-> NonceNames[n]]]
               ELSE /\ UNCHANGED <<authSessions, neynar>>
                    /\ http' = [route |-> "POST /api/auth/challenge", authorization |-> NoHeader,
                                status |-> 500,
                                body |-> [error |-> "Failed to create auth challenge"]]
            /\ UNCHANGED <<storage, last, mintingParameters, authTokens, transformCache, now,
                           inFlight, issuedTokens>>

\* The user approves the login of a signer with the provider.
Approve ==
    \E signerUuid \in DOMAIN neynar, fid \in LoginFids :
        /\ neynar[signerUuid].state = "pending"
        /\ neynar' = [neynar EXCEPT ![signerUuid] = [state |-> "completed", fid |-> fid]]
        /\ UNCHANGED <<storage, last, mintingParameters, http, authTokens, authSessions,
                       transformCache, now, inFlight, issuedTokens>>

\* The channel tokens requested: those handed out and one that never was.
ChannelTokenParams == {ChannelTokenNames[n] : n \in 1..MaxSessions} \cup {"unknown"}

StatusBegin ==
    \E channelToken \in ChannelTokenParams :
        LET r == statusBegin(authSessions, channelToken)
        IN  /\ IF r.awaits
               THEN /\ BagCardinality(inFlight) < MaxInFlight
                    /\ inFlight' = inFlight (+) SetToBag({[route |-> "GET /api/auth/status/:channelToken",
                                                           channelToken |-> channelToken]})
                    /\ UNCHANGED http
               ELSE /\ http' = [route |-> "GET /api/auth/status/:channelToken",
                                authorization |-> NoHeader, status |-> r.status, body |-> r.body]
                    /\ UNCHANGED inFlight
            /\ UNCHANGED <<storage, last, mintingParameters, authTokens, authSessions,
                           transformCache, now, neynar, issuedTokens>>

StatusEnd ==
    \E req \in BagToSet(inFlight) :
        /\ req.route = "GET /api/auth/status/:channelToken"
        /\ \E response \in LoginResponses(authSessions[req.channelToken].signerUuid) :
               LET drawn == Cardinality(DOMAIN issuedTokens)
                   r == statusEnd(authTokens, authSessions, drawn, now, req.channelToken, response)
               IN  /\ r.issued => drawn < MaxIssued
                   /\ authTokens' = r.authTokens
                   /\ authSessions' = r.authSessions
                   /\ issuedTokens' = IF r.issued
                                      THEN Put(issuedTokens, r.body.token,
                                               [fid |-> r.body.fid, issuedAt |-> now,
                                                channelToken |-> req.channelToken])
                                      ELSE issuedTokens
                   /\ http' = [route |-> req.route, authorization |-> NoHeader,
                               status |-> r.status, body |-> r.body]
        /\ inFlight' = inFlight (-) SetToBag({req})
        /\ UNCHANGED <<storage, last, mintingParameters, transformCache, now, neynar>>

\* GET /api/auth/verify
AuthVerify ==
    \E header \in Headers :
        LET r == requireAuth(authTokens, now, header)
        IN  /\ authTokens' = r.authTokens
            /\ http' = [route |-> "GET /api/auth/verify", authorization |-> header,
                        status |-> IF r.next THEN 200 ELSE r.status,
                        body |-> IF r.next THEN [valid |-> TRUE, fid |-> r.userFid]
                                 ELSE [error |-> r.error]]
            /\ UNCHANGED <<storage, last, mintingParameters, authSessions, transformCache,
                           now, inFlight, neynar, issuedTokens>>

\* Time passes.
Tick ==
    /\ now < MaxTime
    /\ now' = now + 1
    /\ UNCHANGED <<storage, last, mintingParameters, http, authTokens, authSessions,
                   transformCache, inFlight, neynar, issuedTokens>>

NextAuth ==
    \/ Challenge
    \/ Approve
    \/ StatusBegin
    \/ StatusEnd
    \/ AuthVerify
    \/ Tick

SpecAuth == InitRoles /\ [][NextAuth]_vars

\* ------------------------------------------------------------ the API routes
\* A JSON value of a request body, with its type: `fid !== req.userFid` compares both.
JsonNumber(n) == <<"number", n>>
JsonString(text) == <<"string", text>>

\* !value
falsy(value) ==
    \/ (value[1] = "number" /\ value[2] = 0)
    \/ (value[1] = "string" /\ value[2] = "")

\* value !== n, for a number n: NaN differs from everything, itself included.
strictlyDiffers(value, n) == ~(value[1] = "number" /\ n # NaN /\ value[2] = n)

\* ethers.utils.formatEther, on the prices the parameters can hold.
formatEther(price) ==
    CASE price = 1 -> "0.001"
      [] price = 2 -> "0.002"
      [] price = 3 -> "0.003"

\* The external services a handler can call.
Neynar == "api.neynar.com"
Together == "api.together.xyz"
Pinata == "api.pinata.cloud"

\* The profile pictures sent in, and the URLs the image service answers with.
ImageUrls == {"pfp"}
TransformedUrls == {"cyber1", "cyber2"}

\* What the identity provider answers to getFarcasterUser, or its failure.
UserResponses ==
    {[ok |-> FALSE]} \cup {[ok |-> TRUE, isPro |-> p, profileImage |-> "pfp"] : p \in BOOLEAN}

\* What the image service answers, or its failure.
ImageResponses == {[ok |-> FALSE]} \cup {[ok |-> TRUE, url |-> u] : u \in TransformedUrls}

\* Mutant: the profile is fetched before the caller's FID is compared.
getUser_FetchesFirst(at, t, mp, header, fidParam, response) ==
    IF ~requireAuth(at, t, header).next
    THEN [status |-> 401, body |-> [error |-> requireAuth(at, t, header).error],
          calls |-> {}, authTokens |-> requireAuth(at, t, header).authTokens]
    ELSE IF ~response.ok
    THEN [status |-> 500, body |-> [error |-> "Failed to fetch Farcaster user data"],
          calls |-> {Neynar}, authTokens |-> at]
    ELSE IF parseInt(fidParam) = NaN \/ parseInt(fidParam) # requireAuth(at, t, header).userFid
    THEN [status |-> 403, body |-> [error |-> "Can only access your own profile"],
          calls |-> {Neynar}, authTokens |-> at]
    ELSE [status |-> 200,
          body |-> [fid |-> parseInt(fidParam), isPro |-> response.isPro,
                    isEligible |-> /\ jsGe(parseInt(fidParam), mp.minFid)
                                   /\ jsLe(parseInt(fidParam), mp.maxFid)
                                   /\ jsLt(mp.currentSupply, mp.maxSupply)
                                   /\ ~mp.paused,
                    mintPrice |-> formatEther(IF response.isPro THEN mp.proMintPrice
                                              ELSE mp.baseMintPrice)],
          calls |-> {Neynar}, authTokens |-> at]

\* GET /api/user/:fid
getUser(at, t, mp, header, fidParam, response) ==
    IF ~requireAuth(at, t, header).next
    THEN [status |-> 401, body |-> [error |-> requireAuth(at, t, header).error],
          calls |-> {}, authTokens |-> requireAuth(at, t, header).authTokens]
    ELSE IF parseInt(fidParam) = NaN \/ parseInt(fidParam) # requireAuth(at, t, header).userFid
    THEN [status |-> 403, body |-> [error |-> "Can only access your own profile"],
          calls |-> {}, authTokens |-> at]
    ELSE IF ~response.ok
    THEN [status |-> 500, body |-> [error |-> "Failed to fetch Farcaster user data"],
          calls |-> {Neynar}, authTokens |-> at]
    ELSE [status |-> 200,
          body |-> [fid |-> parseInt(fidParam), isPro |-> response.isPro,
                    isEligible |-> /\ jsGe(parseInt(fidParam), mp.minFid)
                                   /\ jsLe(parseInt(fidParam), mp.maxFid)
                                   /\ jsLt(mp.currentSupply, mp.maxSupply)
                                   /\ ~mp.paused,
                    mintPrice |-> formatEther(IF response.isPro THEN mp.proMintPrice
                                              ELSE mp.baseMintPrice)],
          calls |-> {Neynar}, authTokens |-> at]

\* `${fid}-${imageUrl}`
cacheKey(fid, imageUrl) == decimal(fid) \o "-" \o imageUrl

\* transformToCyberpunk(imageUrl, fid) up to its await: the cached URL, or the wait for
\* the image service.
transformBegin(cache, imageUrl, fid) ==
    IF cacheKey(fid, imageUrl) \in DOMAIN cache
    THEN [awaits |-> FALSE, url |-> cache[cacheKey(fid, imageUrl)]]
    ELSE [awaits |-> TRUE, url |-> ""]

\* transformToCyberpunk from the image service's answer on.
transformEnd(cache, imageUrl, fid, response) ==
    IF ~response.ok
    THEN [ok |-> FALSE, error |-> "Failed to transform image", transformCache |-> cache]
    ELSE [ok |-> TRUE, url |-> response.url,
          transformCache |-> Put(cache, cacheKey(fid, imageUrl), response.url)]

\* POST /api/transform up to the await of transformToCyberpunk.
transformRoute(at, t, mp, cache, header, body) ==
    IF ~requireAuth(at, t, header).next
    THEN [awaits |-> FALSE, status |-> 401,
          body |-> [error |-> requireAuth(at, t, header).error],
          authTokens |-> requireAuth(at, t, header).authTokens]
    ELSE IF \/ "fid" \notin DOMAIN body
            \/ "imageUrl" \notin DOMAIN body
            \/ falsy(body.fid)
            \/ body.imageUrl = ""
    THEN [awaits |-> FALSE, status |-> 400, body |-> [error |-> "Missing required parameters"],
          authTokens |-> at]
    ELSE IF strictlyDiffers(body.fid, requireAuth(at, t, header).userFid)
    THEN [awaits |-> FALSE, status |-> 403,
          body |-> [error |-> "Can only transform your own profile"], authTokens |-> at]
    ELSE IF ~(/\ jsGe(body.fid[2], mp.minFid)
              /\ jsLe(body.fid[2], mp.maxFid)
              /\ ~mp.paused)
    THEN [awaits |-> FALSE, status |-> 403,
          body |-> [error |-> "Not eligible to mint", isEligible |-> FALSE,
                    reason |-> "FID out of range or minting paused"],
          authTokens |-> at]
    ELSE IF transformBegin(cache, body.imageUrl, body.fid[2]).awaits
    THEN [awaits |-> TRUE, status |-> 0, body |-> <<>>, authTokens |-> at]
    ELSE [awaits |-> FALSE, status |-> 200,
          body |-> [success |-> TRUE,
                    transformedUrl |-> transformBegin(cache, body.imageUrl, body.fid[2]).url,
                    isEligible |-> TRUE, fid |-> body.fid[2]],
          authTokens |-> at]

\* POST /api/prepare-mint; `upload` is how far the two uploads to IPFS get.
prepareMint(at, t, header, body, upload) ==
    IF ~requireAuth(at, t, header).next
    THEN [status |-> 401, body |-> [error |-> requireAuth(at, t, header).error],
          calls |-> {}, authTokens |-> requireAuth(at, t, header).authTokens]
    ELSE IF \/ "fid" \notin DOMAIN body
            \/ strictlyDiffers(body.fid, requireAuth(at, t, header).userFid)
    THEN [status |-> 403, body |-> [error |-> "Can only mint your own profile"],
          calls |-> {}, authTokens |-> at]
    ELSE IF upload = "image fails"
    THEN [status |-> 500, body |-> [error |-> "Failed to upload to IPFS"],
          calls |-> {Pinata}, authTokens |-> at]
    ELSE IF upload = "metadata fails"
    THEN [status |-> 500, body |-> [error |-> "Failed to upload metadata to IPFS"],
          calls |-> {Pinata}, authTokens |-> at]
    ELSE [status |-> 200, body |-> [success |-> TRUE, fid |-> body.fid[2]],
          calls |-> {Pinata}, authTokens |-> at]

\* POST /api/frame-action up to the await of transformToCyberpunk.
frameAction(cache, fid, buttonIndex, response) ==
    IF ~response.ok
    THEN [awaits |-> FALSE, status |-> 500,
          body |-> [error |-> "Failed to fetch Farcaster user data"]]
    ELSE IF buttonIndex = 1
    THEN IF transformBegin(cache, response.profileImage, fid).awaits
         THEN [awaits |-> TRUE, status |-> 0, body |-> <<>>]
         ELSE [awaits |-> FALSE, status |-> 200,
               body |-> [image |-> transformBegin(cache, response.profileImage, fid).url]]
    ELSE IF buttonIndex = 2
    THEN [awaits |-> FALSE, status |-> 200, body |-> [image |-> "generate-mint-confirmation"]]
    ELSE IF buttonIndex = 3
    THEN [awaits |-> FALSE, status |-> 500,
          body |-> [error |-> "checkEligibility is not defined"]]
    ELSE [awaits |-> FALSE, status |-> 200, body |-> [image |-> "generate-preview"]]

\* The fid of a request body: absent, 0, a user's FID as a number, or one as a text.
JsonFids == {JsonNumber(n) : n \in {0} \cup LoginFids} \cup {JsonString("1")}

\* The headers sent to the routes behind requireAuth: none, and the tokens that can be
\* issued.
ApiHeaders == {NoHeader} \cup {[scheme |-> "Bearer ", token |-> AuthTokenNames[n]] : n \in 1..MaxIssued}

TransformBodies ==
    {[fid |-> f, imageUrl |-> u] : f \in JsonFids, u \in ImageUrls}
    \cup {[fid |-> JsonNumber(f)] : f \in LoginFids}
    \cup {[imageUrl |-> u] : u \in ImageUrls}

PrepareMintBodies ==
    {[fid |-> f, imageUrl |-> u] : f \in JsonFids, u \in ImageUrls}
    \cup {[imageUrl |-> u] : u \in ImageUrls}

Uploads == {"image fails", "metadata fails", "ok"}

ButtonIndexes == 1..4

GetUser ==
    \E header \in ApiHeaders, fidParam \in FidParams, response \in UserResponses :
        LET r == getUser(authTokens, now, mintingParameters, header, fidParam, response)
        IN  /\ authTokens' = r.authTokens
            /\ http' = [route |-> "GET /api/user/:fid",
                        status |-> r.status, body |-> r.body, calls |-> r.calls]
            /\ UNCHANGED <<storage, last, mintingParameters, authSessions, transformCache,
                           now, inFlight, neynar, issuedTokens>>

Transform ==
    \E header \in ApiHeaders, body \in TransformBodies :
        LET r == transformRoute(authTokens, now, mintingParameters, transformCache, header, body)
        IN  /\ authTokens' = r.authTokens
            /\ IF r.awaits
               THEN /\ BagCardinality(inFlight) < MaxInFlight
                    /\ inFlight' = inFlight (+) SetToBag({[route |-> "POST /api/transform",
                                                           fid |-> body.fid[2],
                                                           imageUrl |-> body.imageUrl]})
                    /\ UNCHANGED http
               ELSE /\ http' = [route |-> "POST /api/transform",
                                status |-> r.status, body |-> r.body, calls |-> {}]
                    /\ UNCHANGED inFlight
            /\ UNCHANGED <<storage, last, mintingParameters, authSessions, transformCache,
                           now, neynar, issuedTokens>>

FrameAction ==
    \E fid \in LoginFids, buttonIndex \in ButtonIndexes, response \in UserResponses :
        LET r == frameAction(transformCache, fid, buttonIndex, response)
        IN  /\ IF r.awaits
               THEN /\ BagCardinality(inFlight) < MaxInFlight
                    /\ inFlight' = inFlight (+) SetToBag({[route |-> "POST /api/frame-action",
                                                           fid |-> fid,
                                                           imageUrl |-> response.profileImage]})
                    /\ UNCHANGED http
               ELSE /\ http' = [route |-> "POST /api/frame-action",
                                status |-> r.status, body |-> r.body, calls |-> {Neynar}]
                    /\ UNCHANGED inFlight
            /\ UNCHANGED <<storage, last, mintingParameters, authTokens, authSessions,
                           transformCache, now, neynar, issuedTokens>>

\* The image service answers a request waiting in transformToCyberpunk, and the handler
\* that called it responds.
TransformEnd ==
    \E req \in BagToSet(inFlight), response \in ImageResponses :
        LET r == transformEnd(transformCache, req.imageUrl, req.fid, response)
        IN  /\ req.route \in {"POST /api/transform", "POST /api/frame-action"}
            /\ transformCache' = r.transformCache
            /\ http' = [route |-> req.route,
                        status |-> IF r.ok THEN 200 ELSE 500,
                        body |-> IF ~r.ok THEN [error |-> r.error]
                                 ELSE IF req.route = "POST /api/transform"
                                 THEN [success |-> TRUE, transformedUrl |-> r.url,
                                       isEligible |-> TRUE, fid |-> req.fid]
                                 ELSE [image |-> r.url],
                        calls |-> IF req.route = "POST /api/transform" THEN {Together}
                                  ELSE {Neynar, Together}]
            /\ inFlight' = inFlight (-) SetToBag({req})
            /\ UNCHANGED <<storage, last, mintingParameters, authTokens, authSessions, now,
                           neynar, issuedTokens>>

PrepareMint ==
    \E header \in ApiHeaders, body \in PrepareMintBodies, upload \in Uploads :
        LET r == prepareMint(authTokens, now, header, body, upload)
        IN  /\ authTokens' = r.authTokens
            /\ http' = [route |-> "POST /api/prepare-mint",
                        status |-> r.status, body |-> r.body, calls |-> r.calls]
            /\ UNCHANGED <<storage, last, mintingParameters, authSessions, transformCache,
                           now, inFlight, neynar, issuedTokens>>

\* The routes behind requireAuth and the frame, with the login that issues the tokens.
NextApi ==
    \/ Challenge
    \/ Approve
    \/ StatusBegin
    \/ StatusEnd
    \/ GetUser
    \/ Transform
    \/ FrameAction
    \/ TransformEnd
    \/ PrepareMint

SpecApi == InitRoles /\ [][NextApi]_vars

\* The routes that read or write mintingParameters, with the login.
NextSupply ==
    \/ Challenge
    \/ Approve
    \/ StatusBegin
    \/ StatusEnd
    \/ UpdateParameters
    \/ CheckEligibility
    \/ GetUser
    \/ Transform
    \/ TransformEnd
    \/ PrepareMint

SpecSupply == InitRoles /\ [][NextSupply]_vars

\* ======================================================================
\* Properties
\* ======================================================================
AllRecipients == {ZeroAddress, User, NonReceiver}
MintedFids == {f \in Fids : hasMinted[f]}
InRange(f) == mintingParams.minFid <= f /\ f <= mintingParams.maxFid

\* ---------------------------------------------------------------- C1
\* C1 as stated: once a mint has succeeded for a FID, every later mint call for that FID
\* fails with 'FID has already minted'.  Stated for a FID that is the only minted one
\* while the treasury has been paid, so that it was minted by mint (batchMint pays
\* nothing), and for a call with a recipient that can receive and a full payment.
C1_SecondMintAlwaysAlreadyMinted ==
    \A f \in Fids :
        (MintedFids = {f} /\ balance[treasury] > 0)
            => mint(Cur, User, f, 2).err = ErrAlreadyMinted

\* C1 amended: once hasMinted[fid] is set it stays set, and every mint call for that FID
\* reverts and changes nothing; the revert is 'FID has already minted' when the contract
\* is not paused and the recipient is not the zero address, 'Pausable: paused' when it
\* is paused, and 'Cannot mint to zero address' otherwise; a call nested in a running
\* mint reverts with 'ReentrancyGuard: reentrant call' before any of these.
C1_SecondMintState ==
    \A f \in MintedFids : \A to \in AllRecipients, v \in PayVals :
        LET r == mint(Cur, to, f, v)
            n == mint([Cur EXCEPT !.entered = TRUE], to, f, v)
        IN  /\ r.err # OK
            /\ r.s = Cur
            /\ r.err = (IF paused THEN ErrPaused
                        ELSE IF to = ZeroAddress THEN ErrZeroRecipient
                        ELSE ErrAlreadyMinted)
            /\ n.err = ErrReentrant

C1_SecondMintFails ==
    /\ []C1_SecondMintState
    /\ [][\A f \in Fids : hasMinted[f] => hasMinted'[f]]_vars

\* A FID minted by mint, now outside the FID range the owner has set since, whose
\* second mint was just refused as already minted.
C1_Witness ==
    /\ last = [op |-> "mint", err |-> ErrAlreadyMinted]
    /\ balance[treasury] > 0
    /\ \E f \in Fids : MintedFids = {f} /\ ~InRange(f)

\* ---------------------------------------------------------------- C2
\* C2: isEligible(fid) is true if and only if minFid <= fid <= maxFid, hasMinted[fid] is
\* false, the contract is not paused and currentSupply < maxSupply.
C2_IsEligibleIff ==
    \A f \in Fids :
        isEligible(Cur, f) <=>
            /\ InRange(f)
            /\ hasMinted[f] = FALSE
            /\ paused = FALSE
            /\ mintingParams.currentSupply < mintingParams.maxSupply

\* One FID is eligible while another, in range, is not because it has minted.
C2_Witness ==
    \E f \in Fids, g \in Fids :
        /\ isEligible(Cur, f)
        /\ InRange(g) /\ hasMinted[g] /\ ~isEligible(Cur, g)

\* ---------------------------------------------------------------- C3
\* C3: getMintPrice(fid, isPro) is proMintPrice when isPro and requireProForDiscount are
\* both true and baseMintPrice otherwise, whatever the fid.
C3_GetMintPrice ==
    \A f \in Fids, isPro \in BOOLEAN :
        getMintPrice(Cur, f, isPro) =
            (IF isPro = TRUE /\ mintingParams.requireProForDiscount = TRUE
             THEN mintingParams.proMintPrice
             ELSE mintingParams.baseMintPrice)

\* The owner has switched the discount off while the two prices differ.
C3_Witness ==
    /\ last = [op |-> "setRequireProForDiscount", err |-> OK]
    /\ mintingParams.requireProForDiscount = FALSE
    /\ mintingParams.proMintPrice < mintingParams.baseMintPrice
    /\ isProUser[1]

\* ---------------------------------------------------------------- C4
MintPreconditionErrors ==
    {ErrPaused, ErrZeroRecipient, ErrAlreadyMinted, ErrFidRange, ErrMaxSupply, ErrPayment}

\* C4: a mint call that fails a precondition leaves the whole contract state unchanged,
\* both as the call that was just made and for every call that could be made now.
C4_FailedMintNoChange ==
    /\ [](\A to \in AllRecipients, f \in Fids, v \in PayVals :
            mint(Cur, to, f, v).err \in MintPreconditionErrors
                => mint(Cur, to, f, v).s = Cur)
    /\ [][(last'.op = "mint" /\ last'.err \in MintPreconditionErrors)
            => UNCHANGED storage]_vars

\* A mint for a FID outside the range was just refused, after an earlier mint was paid.
C4_Witness ==
    /\ last = [op |-> "mint", err |-> ErrFidRange]
    /\ tokenIdCounter > 0
    /\ balance[treasury] > 0

\* ---------------------------------------------------------------- C5
\* C5 as stated: for an eligible FID and a non-zero recipient, mint succeeds if and only
\* if the payment is at least getMintPrice(fid, isProUser[fid]).
C5_PaymentDecidesMint ==
    \A f \in Fids : \A to \in AllRecipients \ {ZeroAddress}, v \in PayVals :
        isEligible(Cur, f)
            => (mint(Cur, to, f, v).err = OK <=> v >= getMintPrice(Cur, f, isProUser[f]))

\* C5 amended: for an eligible FID, a non-zero recipient that can receive the token and
\* a treasury that accepts the payment, mint succeeds if and only if the payment is at
\* least getMintPrice(fid, isProUser[fid]); with a smaller payment it fails with
\* 'Insufficient payment' whatever the recipient and the treasury are; a Pro FID paying
\* exactly proMintPrice < baseMintPrice succeeds only while requireProForDiscount holds.
C5_PaymentDecidesMintForReceiver ==
    \A f \in Fids : \A v \in PayVals :
        isEligible(Cur, f) =>
            LET price == getMintPrice(Cur, f, isProUser[f])
            IN  /\ treasury # NonReceiver => (mint(Cur, User, f, v).err = OK <=> v >= price)
                /\ \A to \in AllRecipients \ {ZeroAddress} :
                       /\ v < price => mint(Cur, to, f, v).err = ErrPayment
                       /\ mint(Cur, to, f, v).err = OK => v >= price
                /\ (/\ isProUser[f]
                    /\ v = mintingParams.proMintPrice
                    /\ v < mintingParams.baseMintPrice
                    /\ treasury # NonReceiver)
                       => (mint(Cur, User, f, v).err = OK <=> mintingParams.requireProForDiscount)

\* The first mint of the deployment, by the Pro FID, was just paid at the discounted price.
C5_Witness ==
    /\ last = [op |-> "mint", err |-> OK]
    /\ MintedFids = {1} /\ isProUser[1]
    /\ balance[treasury] = mintingParams.proMintPrice
    /\ mintingParams.proMintPrice < mintingParams.baseMintPrice

\* ---------------------------------------------------------------- C6
NewTokens == (DOMAIN tokenOwner') \ (DOMAIN tokenOwner)

\* C6: the tokens that exist are 0 .. _tokenIdCounter - 1, from 0 at deployment; every
\* call numbers the tokens it mints with the next identifiers in order, never reusing
\* one, and each token minted marks one FID that was not minted before and adds exactly
\* 1 to currentSupply.
C6_Step ==
    /\ tokenIdCounter' >= tokenIdCounter
    /\ NewTokens = tokenIdCounter .. (tokenIdCounter' - 1)
    /\ \A t \in DOMAIN tokenOwner : /\ tokenOwner'[t] = tokenOwner[t]
                                     /\ tokenIdToFid'[t] = tokenIdToFid[t]
    /\ \A t \in NewTokens : /\ ~hasMinted[tokenIdToFid'[t]]
                            /\ hasMinted'[tokenIdToFid'[t]]
                            /\ fidToTokenId'[tokenIdToFid'[t]] = t
    /\ \A t \in NewTokens, u \in NewTokens : tokenIdToFid'[t] = tokenIdToFid'[u] => t = u
    /\ mintingParams'.currentSupply = mintingParams.currentSupply + Cardinality(NewTokens)
    /\ Cardinality(MintedFids') = Cardinality(MintedFids) + Cardinality(NewTokens)
    /\ (last'.op = "mint" /\ last'.err = OK) => NewTokens = {tokenIdCounter}
    /\ (tokenIdCounter = 0 /\ NewTokens # {}) => 0 \in NewTokens

\* What a successful mint, and a successful batchMint item by item, would assign now.
C6_NextIds ==
    /\ \A f \in Fids, v \in PayVals :
           LET r == mint(Cur, User, f, v)
           IN  r.err = OK => /\ r.s.fidToTokenId[f] = tokenIdCounter
                             /\ r.s.tokenIdToFid[tokenIdCounter] = f
                             /\ r.s.tokenIdCounter = tokenIdCounter + 1
    /\ \A b \in Batches :
           LET r == batchMint(Cur, owner, b[1], b[2], b[3])
           IN  r.err = OK =>
                   /\ r.s.tokenIdCounter = tokenIdCounter + Len(b[3])
                   /\ \A i \in 1 .. Len(b[3]) :
                          /\ r.s.fidToTokenId[b[3][i]] = tokenIdCounter + i - 1
                          /\ r.s.tokenIdToFid[tokenIdCounter + i - 1] = b[3][i]
                          /\ r.s.tokenOwner[tokenIdCounter + i - 1] = b[1][i]

C6_SequentialTokenIds ==
    /\ [](DOMAIN tokenOwner = 0 .. (tokenIdCounter - 1))
    /\ []C6_NextIds
    /\ [][UNCHANGED <<tokenIdCounter, tokenOwner, tokenIdToFid, fidToTokenId, hasMinted,
                      mintingParams>> \/ C6_Step]_vars

\* Token 0 came from a paid mint and token 1 from the batch that has just run.
C6_Witness ==
    /\ last = [op |-> "batchMint", err |-> OK]
    /\ tokenIdCounter = 2
    /\ balance[treasury] > 0
    /\ mintingParams.currentSupply = 2

\* ---------------------------------------------------------------- C7
\* C7: while paused every mint call fails with 'Pausable: paused'; pause and unpause
\* change nothing but the pause flag, so after pause then unpause isEligible is, for
\* every FID, what it was before the pause.
C7_PauseBlocksAndRestores ==
    /\ paused => \A to \in AllRecipients, f \in Fids, v \in PayVals :
                    mint(Cur, to, f, v).err = ErrPaused
    /\ paused => unpause(Cur, owner) = Return([Cur EXCEPT !.paused = FALSE])
    /\ ~paused =>
          LET p == pause(Cur, owner)
              u == unpause(p.s, owner)
          IN  /\ p = Return([Cur EXCEPT !.paused = TRUE])
              /\ \A to \in AllRecipients, f \in Fids, v \in PayVals :
                     mint(p.s, to, f, v).err = ErrPaused
              /\ \A f \in Fids : ~isEligible(p.s, f)
              /\ u.err = OK
              /\ \A f \in Fids : isEligible(u.s, f) = isEligible(Cur, f)

\* The owner has just unpaused a contract that has minted and still has an eligible FID.
C7_Witness ==
    /\ last = [op |-> "unpause", err |-> OK]
    /\ tokenIdCounter > 0
    /\ \E f \in Fids : isEligible(Cur, f)

\* ---------------------------------------------------------------- C8
\* C8: while the contract is paused no operation sets hasMinted for any FID or increases
\* currentSupply.
C8_NoMintWhilePaused ==
    [][paused => /\ hasMinted' = hasMinted
                 /\ mintingParams'.currentSupply <= mintingParams.currentSupply]_vars

\* ---------------------------------------------------------------- C9
\* C9: baseMintPrice >= proMintPrice in every reachable state, hence
\* getMintPrice(fid, true) <= getMintPrice(fid, false) for every FID.
C9_PriceOrdering ==
    /\ mintingParams.baseMintPrice >= mintingParams.proMintPrice
    /\ \A f \in Fids : getMintPrice(Cur, f, TRUE) <= getMintPrice(Cur, f, FALSE)

\* The owner has just replaced all parameters, with the discount switched off and a
\* Pro price below the base price.
C9_Witness ==
    /\ last = [op |-> "updateMintingParams", err |-> OK]
    /\ mintingParams.requireProForDiscount = FALSE
    /\ mintingParams.proMintPrice < mintingParams.baseMintPrice
    /\ tokenIdCounter > 0

\* ---------------------------------------------------------------- C10
\* C10: maxFid >= minFid in every reachable state, from any successful deployment on.
C10_FidRangeOrdered == mintingParams.maxFid >= mintingParams.minFid

\* ---------------------------------------------------------------- C11
ParamUpdates == {"updateMintPrices", "updateFidRange", "updateMintingParams"}
Prices == 0 .. 2

\* C11: an updateMintPrices, updateFidRange or updateMintingParams call by the owner
\* that would set proMintPrice > baseMintPrice or maxFid < minFid reverts with the
\* error of the violated ordering and leaves the whole storage, hence every minting
\* parameter, as it was; so does every parameter update that has just failed.
C11_State ==
    /\ \A b \in Prices, p \in Prices :
           p > b => updateMintPrices(Cur, owner, b, p) = Revert(Cur, ErrPriceOrder)
    /\ \A mn \in Fids, mx \in Fids :
           mx < mn => updateFidRange(Cur, owner, mn, mx) = Revert(Cur, ErrInvalidRange)
    /\ \A mn \in Fids, mx \in Fids, b \in Prices, p \in Prices :
           \A ms \in {mintingParams.currentSupply, mintingParams.maxSupply} :
               (p > b \/ mx < mn) =>
                   LET r == updateMintingParams(Cur, owner, mn, mx, b, p, ms)
                   IN  /\ r.s = Cur
                       /\ r.err = (IF p > b THEN ErrPriceOrder ELSE ErrInvalidRange)

C11_RejectedUpdateChangesNothing ==
    /\ []C11_State
    /\ [][(last'.op \in ParamUpdates /\ last'.err # OK) => UNCHANGED storage]_vars

\* After a mint, the owner's updateMintingParams with maxFid < minFid and new prices was
\* just rejected.
C11_Witness ==
    /\ last = [op |-> "updateMintingParams", err |-> ErrInvalidRange]
    /\ tokenIdCounter > 0
    /\ mintingParams.maxFid >= mintingParams.minFid

\* ---------------------------------------------------------------- C12
\* C12: currentSupply <= maxSupply in every reachable state.
C12_SupplyCap == mintingParams.currentSupply <= mintingParams.maxSupply

\* ---------------------------------------------------------------- C13
\* C13: in every reachable state currentSupply equals the number of FIDs whose hasMinted
\* is true and equals the next token id to be assigned.
C13_SupplyCountsMints ==
    /\ mintingParams.currentSupply = Cardinality(MintedFids)
    /\ mintingParams.currentSupply = tokenIdCounter

\* ---------------------------------------------------------------- C14
\* C14: a FID whose hasMinted is true keeps it true through every call: the call just
\* made, and every mint, batchMint, parameter, pause and Pro-status call that could be
\* made now, whether it returns or reverts; so each FID goes from false to true at
\* most once.
C14_State ==
    \A f \in MintedFids :
        /\ \A to \in AllRecipients \cup Reenterers, g \in Fids, v \in PayVals :
               mint(Cur, to, g, v).s.hasMinted[f]
        /\ \A b \in Batches \cup ContractBatches :
               batchMint(Cur, owner, b[1], b[2], b[3]).s.hasMinted[f]
        /\ \A p \in ParamInputs :
               updateMintingParams(Cur, owner, p[1], p[2], p[3], p[4], p[5]).s.hasMinted[f]
        /\ \A rg \in FidRanges : updateFidRange(Cur, owner, rg[1], rg[2]).s.hasMinted[f]
        /\ \A pp \in PricePairs : updateMintPrices(Cur, owner, pp[1], pp[2]).s.hasMinted[f]
        /\ \A g \in Fids, b \in BOOLEAN :
               /\ updateProStatus(Cur, oracle, g, b).s.hasMinted[f]
               /\ setRequireProForDiscount(Cur, owner, b).s.hasMinted[f]
        /\ pause(Cur, owner).s.hasMinted[f]
        /\ unpause(Cur, owner).s.hasMinted[f]

C14_HasMintedNeverReset ==
    /\ []C14_State
    /\ [][\A f \in Fids : (hasMinted[f] => hasMinted'[f])
                          /\ (hasMinted'[f] # hasMinted[f] => ~hasMinted[f])]_vars

\* The owner has just moved the FID range away from a FID that has minted.
C14_Witness ==
    /\ last = [op |-> "updateFidRange", err |-> OK]
    /\ \E f \in MintedFids : ~InRange(f)

\* ---------------------------------------------------------------- C15
\* C15: no call, a call made from a recipient's receive callback included, mints a FID
\* a second time: no two tokens carry the same FID, and a FID's token is the one
\* fidToTokenId names.
C15_NoFidMintedTwice ==
    \A t \in DOMAIN tokenIdToFid :
        /\ fidToTokenId[tokenIdToFid[t]] = t
        /\ \A u \in DOMAIN tokenIdToFid : tokenIdToFid[t] = tokenIdToFid[u] => t = u

\* ---------------------------------------------------------------- C16
\* The accounts that call: the deployer, the oracle, a user and the treasury.
Callers == RoleCallers \cup {TreasuryAddr}

\* Every onlyOwner call with the inputs tried, as made by `sender` now.
OwnerCalls(sender) ==
    {updateMintingParams(Cur, sender, p[1], p[2], p[3], p[4], p[5]) : p \in ParamInputs}
    \cup {updateFidRange(Cur, sender, rg[1], rg[2]) : rg \in FidRanges}
    \cup {updateMintPrices(Cur, sender, pp[1], pp[2]) : pp \in PricePairs}
    \cup {setRequireProForDiscount(Cur, sender, b) : b \in BOOLEAN}
    \cup {pause(Cur, sender), unpause(Cur, sender), emergencyWithdraw(Cur, sender)}
    \cup {updateTreasury(Cur, sender, a) : a \in TreasuryInputs}
    \cup {updateOracle(Cur, sender, a) : a \in OracleInputs}
    \cup {updateRoyalty(Cur, sender, ry[1], ry[2]) : ry \in RoyaltyInputs}
    \cup {transferOwnership(Cur, sender, a) : a \in OwnerInputs}
    \cup {batchMint(Cur, sender, b[1], b[2], b[3]) : b \in Batches}

\* C16: every call that changes the minting parameters, the pause flag, the treasury,
\* the oracle or the royalty configuration, and batchMint, reverts with 'Ownable:
\* caller is not the owner' and changes nothing when made by any account other than
\* the current owner, the oracle, the treasury and a former owner included; the
\* current owner's call with valid arguments takes effect.
C16_OnlyOwner ==
    /\ \A sender \in Callers \ {owner} :
           \A r \in OwnerCalls(sender) : r = Revert(Cur, ErrNotOwner)
    /\ updateTreasury(Cur, owner, User) = Return([Cur EXCEPT !.treasury = User])
    /\ updateOracle(Cur, owner, User) = Return([Cur EXCEPT !.oracle = User])
    /\ updateRoyalty(Cur, owner, User, 0)
           = Return([Cur EXCEPT !.royaltyReceiver = User, !.royaltyBasisPoints = 0])
    /\ updateMintPrices(Cur, owner, 2, 1).err = OK
    /\ updateFidRange(Cur, owner, 1, 1).err = OK
    /\ batchMint(Cur, owner, <<>>, 0, <<>>).err = OK
    /\ pause(Cur, owner).err = OK \/ unpause(Cur, owner).err = OK

\* After the deployer handed the ownership to user1 and a token was minted, an
\* updateTreasury call by another account was just rejected.
C16_Witness ==
    /\ last = [op |-> "updateTreasury", err |-> ErrNotOwner]
    /\ owner = User
    /\ tokenIdCounter > 0

\* ---------------------------------------------------------------- C17
\* The oracle passed to the constructor is never the zero address here, so the callers
\* of onlyOracle that pass it are real accounts.
Authorised(s) == {s.oracle, s.owner}

\* C17 as stated: updateProStatus and batchUpdateProStatus succeed exactly when the
\* caller is the current oracle or the owner, and after updateOracle(newOracle) the
\* previous oracle, unless it is the owner, is no longer authorised.
C17_ProStatusAuthorisation ==
    /\ \A sender \in Callers :
           /\ \A f \in Fids, b \in BOOLEAN :
                  updateProStatus(Cur, sender, f, b).err = OK <=> sender \in Authorised(Cur)
           /\ \A pb \in ProBatches :
                  batchUpdateProStatus(Cur, sender, pb[1], pb[2]).err = OK
                      <=> sender \in Authorised(Cur)
    /\ \A n \in OracleInputs \ {ZeroAddress} :
           oracle # owner =>
               updateProStatus(updateOracle(Cur, owner, n).s, oracle, 1, TRUE).err
                   = ErrNotAuthorized

\* C17 amended: updateProStatus succeeds exactly when the caller is the current oracle
\* or the owner; batchUpdateProStatus succeeds exactly when, in addition, its two
\* arrays have the same length, and reverts with 'Array lengths must match' for an
\* authorised caller otherwise; any other caller is rejected with 'Not authorized'
\* and nothing changes.  After the owner's updateOracle(newOracle) the new oracle is
\* authorised and the previous one is not, unless it is the owner or newOracle itself.
C17_ProStatusAuthorisationEqualLengths ==
    /\ \A sender \in Callers :
           /\ \A f \in Fids, b \in BOOLEAN :
                  LET r == updateProStatus(Cur, sender, f, b)
                  IN  IF sender \in Authorised(Cur) THEN r.err = OK
                      ELSE r = Revert(Cur, ErrNotAuthorized)
           /\ \A pb \in ProBatches :
                  LET r == batchUpdateProStatus(Cur, sender, pb[1], pb[2])
                  IN  IF sender \notin Authorised(Cur) THEN r = Revert(Cur, ErrNotAuthorized)
                      ELSE IF Len(pb[1]) # Len(pb[2]) THEN r = Revert(Cur, ErrArrayLengths)
                      ELSE r.err = OK
    /\ \A n \in OracleInputs \ {ZeroAddress} :
           LET u == updateOracle(Cur, owner, n)
           IN  /\ u = Return([Cur EXCEPT !.oracle = n])
               /\ updateProStatus(u.s, n, 1, TRUE).err = OK
               /\ batchUpdateProStatus(u.s, n, <<1>>, <<TRUE>>).err = OK
               /\ (oracle # owner /\ oracle # n) =>
                      /\ updateProStatus(u.s, oracle, 1, TRUE) = Revert(u.s, ErrNotAuthorized)
                      /\ batchUpdateProStatus(u.s, oracle, <<1>>, <<TRUE>>)
                             = Revert(u.s, ErrNotAuthorized)
               /\ oracle = n => updateProStatus(u.s, oracle, 1, TRUE).err = OK

\* The owner has replaced the oracle by user1, and the updateProStatus call of an
\* account that is neither was just rejected.
C17_Witness ==
    /\ last = [op |-> "updateProStatus", err |-> ErrNotAuthorized]
    /\ oracle = User
    /\ owner = Deployer

\* ---------------------------------------------------------------- C20
ProUpdates == {"updateProStatus", "batchUpdateProStatus"}
\* (fids, statuses) with arrays of equal length: those tried, and every pair of FIDs
\* with two different statuses.
EqualProBatches ==
    {pb \in ProBatches : Len(pb[1]) = Len(pb[2])}
    \cup {<<(<<f, g>>), (<<b, ~b>>)>> : f \in Fids, g \in Fids, b \in BOOLEAN}
\* The status the last occurrence of FID f in the batch carries.
LastStatus(pb, f) ==
    pb[2][CHOOSE i \in 1 .. Len(pb[1]) :
              pb[1][i] = f /\ \A j \in (i + 1) .. Len(pb[1]) : pb[1][j] # f]

\* C20: in every reachable state, whether or not the FID has minted and whether or
\* not the contract is paused, an authorised updateProStatus sets isProUser of the FID
\* it names and nothing else, an authorised batchUpdateProStatus sets isProUser of the
\* FIDs it names and nothing else, and a Pro-status call changes no other variable.
C20_State ==
    /\ \A sender \in Authorised(Cur), f \in Fids, b \in BOOLEAN :
           updateProStatus(Cur, sender, f, b) = Return([Cur EXCEPT !.isProUser[f] = b])
    /\ batchUpdateProStatus(Cur, owner, <<>>, <<>>) = Return(Cur)
    /\ \A pb \in EqualProBatches :
           LET r == batchUpdateProStatus(Cur, oracle, pb[1], pb[2])
               named == {pb[1][i] : i \in 1 .. Len(pb[1])}
           IN  /\ r.err = OK
               /\ r.s = [Cur EXCEPT !.isProUser = r.s.isProUser]
               /\ \A f \in Fids :
                      r.s.isProUser[f] = (IF f \in named THEN LastStatus(pb, f)
                                          ELSE isProUser[f])

C20_ProUpdateFrame ==
    /\ []C20_State
    /\ [][last'.op \in ProUpdates =>
             /\ UNCHANGED <<tokenIdCounter, mintingParams, hasMinted, fidToTokenId,
                            tokenIdToFid, treasury, oracle, royaltyReceiver,
                            royaltyBasisPoints, owner, paused, entered, tokenOwner, balance>>
             /\ last'.err # OK => isProUser' = isProUser]_vars

\* FID 1 minted at the base price, so without the Pro flag, and while the contract is
\* paused its Pro flag has just been set.
C20_Witness ==
    /\ last = [op |-> "updateProStatus", err |-> OK]
    /\ MintedFids = {1} /\ isProUser[1]
    /\ balance[treasury] = mintingParams.baseMintPrice
    /\ mintingParams.proMintPrice < mintingParams.baseMintPrice
    /\ paused

\* ---------------------------------------------------------------- C18
\* C18: when several preconditions of a mint are violated at once the error of the FID
\* check is reported before any eligibility or payment error: a mint for FID 0, when 0
\* is not a FID of the configured range, fails with 'FID not in eligible range'
\* whatever the pause flag, the minted flag, the supply and the payment are.
C18_FidErrorFirst ==
    \A v \in PayVals : ~InRange(0) => mint(Cur, User, 0, v).err = ErrFidRange

\* ---------------------------------------------------------------- C19
\* C19: a mint for FID 0 never succeeds, whatever the configured FID range is.
C19_FidZeroNeverMints ==
    \A to \in AllRecipients, v \in PayVals : mint(Cur, to, 0, v).err # OK

\* ---------------------------------------------------------------- C21
\* C21: every successful mint forwards the whole payment, overpayment included, to the
\* treasury stored at that moment: the treasury's balance grows by exactly msg.value,
\* the contract's own balance is the same after the call as before it, and no other
\* address is paid.
C21_FullPaymentToTreasury ==
    \A to \in AllRecipients \cup Reenterers, f \in Fids, v \in PayVals :
        LET r == mint(Cur, to, f, v)
        IN  r.err = OK =>
                /\ r.s.treasury = treasury
                /\ r.s.balance[treasury] = balance[treasury] + v
                /\ r.s.balance[This] = balance[This]
                /\ \A a \in Addresses \ {treasury, This} : r.s.balance[a] = balance[a]

\* One mint has succeeded after the treasury was replaced: the new treasury holds the 2
\* that were paid for the Pro FID 1, the first treasury holds nothing.
C21_Witness ==
    /\ last = [op |-> "mint", err |-> OK]
    /\ treasury = User
    /\ mintingParams.currentSupply = 1
    /\ hasMinted[1] /\ isProUser[1]
    /\ balance[User] = 2
    /\ balance[TreasuryAddr] = 0
    /\ balance[This] = 0

\* ---------------------------------------------------------------- C22
\* The backend's parameters (FID range, prices, max supply, paused) equal the contract's.
ParametersAgree ==
    /\ mintingParameters.minFid = mintingParams.minFid
    /\ mintingParameters.maxFid = mintingParams.maxFid
    /\ mintingParameters.baseMintPrice = mintingParams.baseMintPrice
    /\ mintingParameters.proMintPrice = mintingParams.proMintPrice
    /\ mintingParameters.maxSupply = mintingParams.maxSupply
    /\ mintingParameters.paused = paused

\* C22: the backend is never more permissive than the ledger: while the backend's
\* parameters equal the contract's, every FID that GET /api/check-eligibility/:fid
\* reports as eligible is eligible by the contract's isEligible; in particular a FID
\* that has minted is never reported as eligible.
C22_BackendNeverMorePermissive ==
    ParametersAgree =>
        \A fidParam \in FidParams :
            checkEligibility(mintingParameters, fidParam).isEligible
                => isEligible(Cur, parseInt(fidParam))

\* ---------------------------------------------------------------- C23
\* C23: the backend's mintingParameters change only in a request that passed
\* authentication: a request that carries no Authorization header never changes them.
C23_OnlyAuthenticatedUpdates ==
    [][mintingParameters' # mintingParameters => http'.authorization # NoHeader]_vars

\* ---------------------------------------------------------------- C24
\* C24: POST /api/admin/update-parameters accepts a body only when the parameters it
\* leaves have maxFid >= minFid and baseMintPrice >= proMintPrice, and a request that is
\* answered with an error leaves every parameter as it was.
C24_UpdateValidatedAndAtomic ==
    \A body \in ParameterBodies :
        LET r == updateParameters(mintingParameters, body)
        IN  /\ r.status = 200 =>
                   /\ jsGe(r.parameters.maxFid, r.parameters.minFid)
                   /\ jsGe(r.parameters.baseMintPrice, r.parameters.proMintPrice)
            /\ r.status # 200 => r.parameters = mintingParameters

\* ---------------------------------------------------------------- C25
\* C25: while the backend is paused (the last accepted update-parameters request that
\* named paused set it to true), no mint succeeds on the contract.
C25_BackendPauseStopsMinting ==
    [][mintingParameters.paused =>
           ~(last'.op = "mint" /\ last'.err = OK /\ tokenIdCounter' # tokenIdCounter)]_vars

\* ---------------------------------------------------------------- C26
\* C26: batchMint is all-or-nothing: a call in which any item fails (FID already minted,
\* FID repeated in the batch, supply reached part-way, arrays of different lengths, a
\* recipient that cannot receive, a caller that is not the owner) reverts and leaves the
\* whole storage as it was: no FID marked, no token, currentSupply and the counter
\* unchanged.
C26_BatchMintAllOrNothing ==
    \A sender \in OwnerCallers, b \in Batches \cup ContractBatches :
        LET r == batchMint(Cur, sender, b[1], b[2], b[3])
        IN  r.err # OK => r.s = Cur

\* The last call was a batchMint that reverted, and it was a batch of two whose first
\* item passes on its own: nothing of that item is left.
C26_Witness ==
    /\ last.op = "batchMint"
    /\ last.err # OK
    /\ tokenIdCounter = 0
    /\ tokenOwner = <<>>
    /\ mintingParams.currentSupply = 0
    /\ \E b \in Batches :
           /\ Len(b[1]) = 2
           /\ batchMintItem(Cur, b[1][1], b[3][1]).err = OK
           /\ batchMint(Cur, owner, b[1], b[2], b[3]).err = last.err

\* ---------------------------------------------------------------- C27
\* C27: in every reachable state the FID and token mappings are inverse of each other
\* on the minted entries: getFidByTokenId(getTokenIdByFid(f)) = f for every minted FID f,
\* no two FIDs have the same token and no two tokens the same FID; getTokenIdByFid
\* reverts for a FID that has not minted and getFidByTokenId for a token that does not
\* exist.
C27_MappingsInverse ==
    /\ \A f \in Fids :
           IF hasMinted[f]
           THEN /\ getTokenIdByFid(Cur, f).err = OK
                /\ getFidByTokenId(Cur, getTokenIdByFid(Cur, f).value) = [err |-> OK, value |-> f]
           ELSE getTokenIdByFid(Cur, f).err = ErrFidNotMinted
    /\ \A tk \in 0..(MaxTokens + 1) :
           tk \notin DOMAIN tokenOwner => getFidByTokenId(Cur, tk).err = ErrTokenMissing
    /\ \A f, g \in MintedFids :
           f # g => getTokenIdByFid(Cur, f).value # getTokenIdByFid(Cur, g).value
    /\ \A tk, tl \in DOMAIN tokenOwner :
           tk # tl => getFidByTokenId(Cur, tk).value # getFidByTokenId(Cur, tl).value

\* ---------------------------------------------------------------- C28
\* The recipients that are not the zero address and accept the token.
AcceptingRecipients == {User} \cup Reenterers

C29_MintedOnlyInRange ==
    [][\A f \in Fids : (~hasMinted[f] /\ hasMinted'[f]) => InRange(f)]_vars

\* ---------------------------------------------------------------- C30
\* C30: updateTreasury and updateOracle reject the zero address, for the owner with
\* their own error and for anyone else as not the owner, and leave the treasury, the
\* oracle and everything else unchanged; the treasury is not the zero address in any
\* reachable state.
C30_ZeroAddressRejected ==
    /\ treasury # ZeroAddress
    /\ \A sender \in Callers :
           /\ updateTreasury(Cur, sender, ZeroAddress)
                  = Revert(Cur, IF sender = owner THEN ErrInvalidTreasury ELSE ErrNotOwner)
           /\ updateOracle(Cur, sender, ZeroAddress)
                  = Revert(Cur, IF sender = owner THEN ErrInvalidOracle ELSE ErrNotOwner)

\* The owner's updateOracle with the zero address has just been rejected, after the
\* treasury and the oracle had both been replaced.
C30_Witness ==
    /\ last = [op |-> "updateOracle", err |-> ErrInvalidOracle]
    /\ treasury = NonReceiver
    /\ oracle = User

\* ---------------------------------------------------------------- C31
\* (receiver, basisPoints) that updateRoyalty must refuse, with the error the owner gets.
RefusedRoyalties ==
    {<<ZeroAddress, DefaultRoyaltyBasisPoints, ErrInvalidRoyaltyReceiver>>,
     <<ZeroAddress, MaxRoyaltyBasisPoints + 1, ErrInvalidRoyaltyReceiver>>,
     <<User, MaxRoyaltyBasisPoints + 1, ErrRoyaltyTooHigh>>,
     <<TreasuryAddr, 10000, ErrRoyaltyTooHigh>>}

\* C31: the royalty rate is 666 basis points after deployment and at most 1000 in every
\* reachable state; the royalty receiver is never the zero address; an updateRoyalty
\* call with more than 1000 basis points or with the zero receiver is rejected and
\* changes nothing.
C31_RoyaltyBounded ==
    /\ last.op = "constructor" => royaltyBasisPoints = 666
    /\ royaltyBasisPoints <= 1000
    /\ royaltyReceiver # ZeroAddress
    /\ \A sender \in Callers, ry \in RefusedRoyalties :
           updateRoyalty(Cur, sender, ry[1], ry[2])
               = Revert(Cur, IF sender = owner THEN ry[3] ELSE ErrNotOwner)

\* The owner has set the highest rate allowed and a new receiver, and the call that
\* followed, with a higher rate, was refused.
C31_Witness ==
    /\ last = [op |-> "updateRoyalty", err |-> ErrRoyaltyTooHigh]
    /\ royaltyBasisPoints = MaxRoyaltyBasisPoints
    /\ royaltyReceiver = User

\* ---------------------------------------------------------------- C32
\* C32: requireAuth accepts a header at time `now` if and only if it is 'Bearer ' followed
\* by a token that generateAuthToken issued and `now` is not later than the token's issue
\* time plus 24 hours; the request then runs with the FID the token was issued for.  The
\* first verification after the expiry deletes the token, and a token that is no longer
\* stored has expired, so it is refused with 401 from then on; a request with no header
\* or another scheme is refused with 401 'Unauthorized' and changes nothing.
C32_TokenAcceptance ==
    /\ \A header \in Headers :
           LET r == requireAuth(authTokens, now, header)
               tok == header.token
               bearer == header.scheme = "Bearer "
           IN  /\ r.next <=> /\ bearer
                             /\ tok \in DOMAIN issuedTokens
                             /\ now <= issuedTokens[tok].issuedAt + TokenLifetime
               /\ r.next => r.userFid = issuedTokens[tok].fid /\ r.authTokens = authTokens
               /\ ~r.next => r.status = 401
               /\ ~bearer => r.error = "Unauthorized" /\ r.authTokens = authTokens
               /\ (bearer /\ tok \in DOMAIN authTokens /\ ~r.next)
                      => r.authTokens = Remove(authTokens, tok)
    /\ \A tok \in DOMAIN issuedTokens :
           tok \notin DOMAIN authTokens => now > issuedTokens[tok].issuedAt + TokenLifetime

\* The last request carried a token that had been issued; it came after the expiry, was
\* answered 401, and the token is no longer stored.
C32_Witness ==
    /\ http.route = "GET /api/auth/verify"
    /\ http.status = 401
    /\ http.authorization.scheme = "Bearer "
    /\ http.authorization.token \in DOMAIN issuedTokens
    /\ http.authorization.token \notin DOMAIN authTokens

\* ---------------------------------------------------------------- C33
\* C33: a session that is completed stays completed with the same fid and the same token
\* and no token is generated for it again, so that every later status request is answered
\* with that fid and token; a session is never removed.
C33_CompletedSessionStable ==
    [][\A c \in DOMAIN authSessions :
           /\ c \in DOMAIN authSessions'
           /\ authSessions[c].state = "completed" =>
                  /\ authSessions'[c].state = "completed"
                  /\ statusBegin(authSessions', c) = statusBegin(authSessions, c)
                  /\ \A tok \in DOMAIN issuedTokens' :
                         issuedTokens'[tok].channelToken = c => tok \in DOMAIN issuedTokens]_vars

\* ---------------------------------------------------------------- C34
\* C34: for each auth session at most one token is ever generated, also when several
\* status requests for the session wait for the provider at once.
C34_OneTokenPerSession ==
    \A c \in ChannelTokenParams :
        Cardinality({tok \in DOMAIN issuedTokens : issuedTokens[tok].channelToken = c}) <= 1

\* ---------------------------------------------------------------- C35
\* The FID a request names: the number sent, or the number a text sent denotes.
RequestFid(value) == IF value[1] = "number" THEN value[2] ELSE parseInt(value[2])

\* The request body names no FID, or one that is not the FID u.
BodyFidDiffers(body, u) == "fid" \notin DOMAIN body \/ RequestFid(body.fid) # u

\* POST /api/transform answers 400 to this body before it compares FIDs.
TransformBodyIncomplete(body) ==
    \/ "fid" \notin DOMAIN body
    \/ "imageUrl" \notin DOMAIN body
    \/ RequestFid(body.fid) = 0

\* The headers requireAuth accepts now.
AcceptedHeaders == {h \in ApiHeaders : requireAuth(authTokens, now, h).next}

C36_CacheEntriesStable ==
    [][\A key \in DOMAIN transformCache :
           /\ key \in DOMAIN transformCache'
           /\ transformCache'[key] = transformCache[key]]_vars

\* ---------------------------------------------------------------- C37
\* C37: GET /api/check-eligibility/:fid answers an empty reason exactly when it answers
\* isEligible = true, for every :fid, one that is no number included.
C37_ReasonEmptyIffEligible ==
    \A fidParam \in FidParams :
        checkEligibility(mintingParameters, fidParam).reason = ""
            <=> checkEligibility(mintingParameters, fidParam).isEligible

\* ---------------------------------------------------------------- C38
\* C38: mintingParameters.currentSupply is 0 after every sequence of API requests, so
\* that the supply condition of the backend depends on maxSupply alone.
C38_CurrentSupplyStaysZero ==
    /\ mintingParameters.currentSupply = 0
    /\ \A fidParam \in FidParams :
           checkEligibility(mintingParameters, fidParam).isEligible =>
               jsLt(0, mintingParameters.maxSupply)

\* update-parameters has changed the parameters, a transformation or a prepared mint
\* has succeeded since, and currentSupply is still 0.
C38_Witness ==
    /\ mintingParameters.currentSupply = 0
    /\ mintingParameters # InitialMintingParameters
    /\ http.status = 200
    /\ http.route \in {"POST /api/transform", "POST /api/prepare-mint"}

====
